---- MODULE Spec2Model ----
(***************************************************************************)
(* Order-parameter translation and validation of the v4 python client:     *)
(* clients/helpers/chain_helpers.py, clients/composer.py,                  *)
(* clients/modules/post.py and clients/dydx_composite_client.py.           *)
(*                                                                         *)
(* Every operation of the client is a synchronous call without state of    *)
(* its own, so a behaviour of the model is one call: the initial state     *)
(* holds the operation and its arguments (pc = "call"), the action of the  *)
(* operation runs it and records what it returned or raised and the        *)
(* messages it handed to the broadcast collaborator (pc = "done");           *)
(* queries counts the latest_block_height calls made on the chain-query     *)
(* collaborator.                                                           *)
(***************************************************************************)
EXTENDS Integers, Sequences, FiniteSets, TLC

VARIABLES pc, op, input, output, sent, queries

\* SocketClient (dydx_socket_client.py): the connection, the object's fields,
\* the positions of the keep-alive thread and of the websocket callbacks, the
\* messages in flight and what was observed from outside
VARIABLES conn, last_activity_time, ping_sent_time, ping_thread, ping_pc, ws_pc,
          inbox, outbox, delivered, closer, late

callvars == <<pc, op, input, output, sent, queries>>

sockvars == <<conn, last_activity_time, ping_sent_time, ping_thread, ping_pc, ws_pc,
              inbox, outbox, delivered, closer, late>>

vars == <<callvars, sockvars>>

(***************************************************************************)
(* Bounds of the model.                                                    *)
(***************************************************************************)
\* block heights are 0 .. MaxHeight
MaxHeight == 2
\* good_til_blocks ranges over -1 .. MaxGoodTilBlocks (the window is 1 .. 21)
MaxGoodTilBlocks == 25
\* good_til_seconds ranges over -MaxSeconds .. MaxSeconds
MaxSeconds == 2
\* the wall clock is read in ticks of 1/TicksPerSecond s, 1 .. MaxNowTicks;
\* the range stands for the clock's value, the durations are on the same scale
MaxNowTicks == 4
\* good_til_block and good_til_block_time handed to the composer: 0 .. MaxGoodTil
MaxGoodTil == 2
TicksPerSecond == 2
\* bits of a float's mantissa; 13 rounds hundredths the way the 53 bits of a
\* Python float do (the binary expansion of 1/25 has period 20)
FloatBits == 13
\* a price, size or trigger price is m * 10^e, m in -1 .. MaxMantissa, e in -2 .. 0
MaxMantissa == 30
\* a batch cancel names at most MaxBatch markets
MaxBatch == 2
\* the markets are clob pairs 0 .. MaxClobPairId
MaxClobPairId == 2
\* the integers handed to is_order_flag_stateful_order are -1 .. MaxOrderFlag
MaxOrderFlag == 65
\* at most MaxInFlight frames are on the wire in each direction
MaxInFlight == 1

(***************************************************************************)
(* Python values.                                                          *)
(***************************************************************************)
\* Optional[int]: None is the empty set, a value h is {h}
None == {}

Some(h) == {h}

ValueOf(opt) == CHOOSE h \in opt : TRUE

\* int(x) of a quotient a / b, b > 0: truncation toward zero
TruncDiv(a, b) == IF a >= 0 THEN a \div b ELSE -((-a) \div b)

\* no exception raised
NoError == "none"

\* a call that raised returns nothing
NoValue == <<>>

Returned(v) == [err |-> NoError, ret |-> v]

Raised(e) == [err |-> e, ret |-> NoValue]

(***************************************************************************)
(* chain_helpers.py: enumerations and constants.                           *)
(***************************************************************************)
OrderType ==
    {"MARKET", "LIMIT", "STOP_MARKET", "TAKE_PROFIT_MARKET", "STOP_LIMIT", "TAKE_PROFIT_LIMIT"}

OrderTimeInForce == {"GTT", "IOC", "FOK"}

TIME_IN_FORCE_GTX == "GTX"

ORDER_FLAGS_SHORT_TERM == 0

ORDER_FLAGS_LONG_TERM == 64

ORDER_FLAGS_CONDITIONAL == 32

QUOTE_QUANTUMS_ATOMIC_RESOLUTION == -6

SHORT_BLOCK_WINDOW == 20

\* the three members of the OrderFlags enumeration the composite client uses
OrderFlags == {ORDER_FLAGS_SHORT_TERM, ORDER_FLAGS_CONDITIONAL, ORDER_FLAGS_LONG_TERM}

\* OrderFlags.is_stateful(): statefulness = (flags != SHORT_TERM)
is_stateful(order_flags) == order_flags # ORDER_FLAGS_SHORT_TERM

ErrInvalidOrderFlag == "ValueError: Invalid order flag"

is_order_flag_stateful_order_lenient(order_flag) ==
    IF order_flag = ORDER_FLAGS_SHORT_TERM THEN Returned(FALSE)
    ELSE Returned(TRUE)

is_order_flag_stateful_order(order_flag) ==
    IF order_flag = ORDER_FLAGS_SHORT_TERM THEN Returned(FALSE)
    ELSE IF order_flag = ORDER_FLAGS_LONG_TERM THEN Returned(TRUE)
    ELSE IF order_flag = ORDER_FLAGS_CONDITIONAL THEN Returned(TRUE)
    ELSE Raised(ErrInvalidOrderFlag)

ErrStatefulMissingGTBT == "ValueError: stateful orders must have a valid GTBT"

ErrStatefulNonzeroGTB == "ValueError: stateful order uses GTBT. GTB must be zero"

ErrShortTermMissingGTB == "ValueError: short term orders must have a valid GTB"

ErrShortTermNonzeroGTBT == "ValueError: stateful order uses GTB. GTBT must be zero"

validate_good_til_fields_no_gtb_check(is_stateful_order, good_til_block_time, good_til_block) ==
    IF is_stateful_order
    THEN IF good_til_block_time = 0 THEN ErrStatefulMissingGTBT
         ELSE NoError
    ELSE IF good_til_block = 0 THEN ErrShortTermMissingGTB
         ELSE IF good_til_block_time # 0 THEN ErrShortTermNonzeroGTBT
         ELSE NoError

\* the error validate_good_til_fields raises, NoError when it returns
validate_good_til_fields(is_stateful_order, good_til_block_time, good_til_block) ==
    IF is_stateful_order
    THEN IF good_til_block_time = 0 THEN ErrStatefulMissingGTBT
         ELSE IF good_til_block # 0 THEN ErrStatefulNonzeroGTB
         ELSE NoError
    ELSE IF good_til_block = 0 THEN ErrShortTermMissingGTB
         ELSE IF good_til_block_time # 0 THEN ErrShortTermNonzeroGTBT
         ELSE NoError

(***************************************************************************)
(* Python floats.  A price or size is written by the caller as a decimal   *)
(* m * 10^e, held as [m |-> m, e |-> e]; what the functions receive is the *)
(* float nearest to it.  A float is m * 2^x, held as [m |-> m, x |-> x],   *)
(* with a mantissa of FloatBits bits; every operation rounds its exact     *)
(* result to the nearest float, ties to even.                              *)
(***************************************************************************)
RECURSIVE Pow10(_)
Pow10(n) == IF n <= 0 THEN 1 ELSE 10 * Pow10(n - 1)

RECURSIVE Exp2(_)
Exp2(n) == IF n <= 0 THEN 1 ELSE 2 * Exp2(n - 1)

Max(a, b) == IF a >= b THEN a ELSE b

Abs(a) == IF a >= 0 THEN a ELSE -a

Sign(a) == IF a >= 0 THEN 1 ELSE -1

\* a / d, a >= 0, d > 0, rounded to the nearest integer, ties to even
RoundHalfEven(a, d) ==
    LET q == a \div d
        r == a % d
    IN  IF 2 * r > d \/ (2 * r = d /\ q % 2 = 1) THEN q + 1 ELSE q

\* a / den < 2^(FloatBits - 1): the mantissa is a * 2^s / den for the least s that fills it
RECURSIVE FloatDown(_, _, _)
FloatDown(a, den, s) ==
    IF a * Exp2(s) >= Exp2(FloatBits - 1) * den
    THEN [m |-> RoundHalfEven(a * Exp2(s), den), x |-> -s]
    ELSE FloatDown(a, den, s + 1)

\* a / den >= 2^FloatBits: the mantissa is a / (den * 2^x) for the least x that fits it
RECURSIVE FloatUp(_, _, _)
FloatUp(a, den, x) ==
    IF a < Exp2(FloatBits) * den * Exp2(x)
    THEN [m |-> RoundHalfEven(a, den * Exp2(x)), x |-> x]
    ELSE FloatUp(a, den, x + 1)

\* the float nearest to num / den, den > 0
FloatOfRat(num, den) ==
    LET a == Abs(num)
        f == IF a = 0 THEN [m |-> 0, x |-> 0]
             ELSE IF a >= Exp2(FloatBits) * den THEN FloatUp(a, den, 1)
             ELSE IF a < Exp2(FloatBits - 1) * den THEN FloatDown(a, den, 1)
             ELSE [m |-> RoundHalfEven(a, den), x |-> 0]
    IN  [m |-> Sign(num) * f.m, x |-> f.x]

\* float(n) of an int n
float_of_int(n) == FloatOfRat(n, 1)

\* the float a decimal literal denotes
float(d) == IF d.e >= 0 THEN FloatOfRat(d.m * Pow10(d.e), 1) ELSE FloatOfRat(d.m, Pow10(-d.e))

\* 10**n as an operand of a float product: the int 10^n, or the float 10^n for n < 0
float_pow10(n) == IF n >= 0 THEN float_of_int(Pow10(n)) ELSE FloatOfRat(1, Pow10(-n))

\* f * g
FloatMul(f, g) ==
    LET p == FloatOfRat(f.m * g.m, 1)
    IN  [m |-> p.m, x |-> p.x + f.x + g.x]

\* f / g, g > 0
FloatDiv(f, g) ==
    LET q == FloatOfRat(f.m, g.m)
    IN  [m |-> q.m, x |-> q.x + f.x - g.x]

\* int(f): truncation toward zero
int_of_float(f) ==
    IF f.x >= 0 THEN f.m * Exp2(f.x)
    ELSE IF -f.x > 30 THEN 0
    ELSE TruncDiv(f.m, Exp2(-f.x))

(***************************************************************************)
(* chain_helpers.py: fixed-point conversion.                               *)
(***************************************************************************)
\* round(number, base) = int(number / base) * base
round(number, base) == int_of_float(FloatDiv(number, float_of_int(base))) * base

calculate_quantums_no_minimum(size, atomic_resolution, step_base_quantums) ==
    LET raw_quantums == FloatMul(size, float_pow10(-1 * atomic_resolution))
    IN  round(raw_quantums, step_base_quantums)

calculate_quantums(size, atomic_resolution, step_base_quantums) ==
    LET raw_quantums == FloatMul(size, float_pow10(-1 * atomic_resolution))
        quantums == round(raw_quantums, step_base_quantums)
    IN  Max(quantums, step_base_quantums)

calculate_subticks_no_minimum(price, atomic_resolution, quantum_conversion_exponent, subticks_per_tick) ==
    LET exponent == atomic_resolution - quantum_conversion_exponent
                        - QUOTE_QUANTUMS_ATOMIC_RESOLUTION
        raw_subticks == FloatMul(price, float_pow10(exponent))
    IN  round(raw_subticks, subticks_per_tick)

calculate_subticks(price, atomic_resolution, quantum_conversion_exponent, subticks_per_tick) ==
    LET exponent == atomic_resolution - quantum_conversion_exponent
                        - QUOTE_QUANTUMS_ATOMIC_RESOLUTION
        raw_subticks == FloatMul(price, float_pow10(exponent))
        subticks == round(raw_subticks, subticks_per_tick)
    IN  Max(subticks, subticks_per_tick)

calculate_side(side) == IF side = "BUY" THEN "SIDE_BUY" ELSE "SIDE_SELL"

(***************************************************************************)
(* chain_helpers.py: order flags and time in force.                        *)
(***************************************************************************)
ErrInvalidTimeInForce == "ValueError: time_in_force is invalid for order_type"

ErrInvalidOrderType == "ValueError: order_type is invalid"

calculate_time_in_force_gtt_any(order_type, time_in_force, post_only) ==
    IF order_type \in {"MARKET", "STOP_MARKET", "TAKE_PROFIT_MARKET"}
    THEN IF time_in_force = "FOK" THEN Returned("TIME_IN_FORCE_FILL_OR_KILL")
         ELSE IF time_in_force = "IOC" THEN Returned("TIME_IN_FORCE_IOC")
         ELSE IF time_in_force = "GTT" THEN Returned("TIME_IN_FORCE_UNSPECIFIED")
         ELSE Raised(ErrInvalidTimeInForce)
    ELSE IF order_type \in {"LIMIT", "STOP_LIMIT", "TAKE_PROFIT_LIMIT"}
    THEN IF time_in_force = "GTT"
         THEN Returned("TIME_IN_FORCE_UNSPECIFIED")
         ELSE IF time_in_force = "FOK" THEN Returned("TIME_IN_FORCE_FILL_OR_KILL")
         ELSE IF time_in_force = "IOC" THEN Returned("TIME_IN_FORCE_IOC")
         ELSE Raised(ErrInvalidTimeInForce)
    ELSE Raised(ErrInvalidOrderType)

calculate_time_in_force_gtx_alias(order_type, time_in_force, post_only) ==
    IF order_type \in {"MARKET", "STOP_MARKET", "TAKE_PROFIT_MARKET"}
    THEN IF time_in_force = "FOK" THEN Returned("TIME_IN_FORCE_FILL_OR_KILL")
         ELSE IF time_in_force = "IOC" THEN Returned("TIME_IN_FORCE_IOC")
         ELSE Raised(ErrInvalidTimeInForce)
    ELSE IF order_type \in {"LIMIT", "STOP_LIMIT", "TAKE_PROFIT_LIMIT"}
    THEN IF time_in_force = "GTT"
         THEN IF post_only THEN Returned("TIME_IN_FORCE_POST_ONLY")
              ELSE Returned("TIME_IN_FORCE_UNSPECIFIED")
         ELSE IF time_in_force = "GTX" THEN Returned("TIME_IN_FORCE_POST_ONLY")
         ELSE IF time_in_force = "FOK" THEN Returned("TIME_IN_FORCE_FILL_OR_KILL")
         ELSE IF time_in_force = "IOC" THEN Returned("TIME_IN_FORCE_IOC")
         ELSE Raised(ErrInvalidTimeInForce)
    ELSE Raised(ErrInvalidOrderType)

calculate_time_in_force(order_type, time_in_force, post_only) ==
    IF order_type \in {"MARKET", "STOP_MARKET", "TAKE_PROFIT_MARKET"}
    THEN IF time_in_force = "FOK" THEN Returned("TIME_IN_FORCE_FILL_OR_KILL")
         ELSE IF time_in_force = "IOC" THEN Returned("TIME_IN_FORCE_IOC")
         ELSE Raised(ErrInvalidTimeInForce)
    ELSE IF order_type \in {"LIMIT", "STOP_LIMIT", "TAKE_PROFIT_LIMIT"}
    THEN IF time_in_force = "GTT"
         THEN IF post_only THEN Returned("TIME_IN_FORCE_POST_ONLY")
              ELSE Returned("TIME_IN_FORCE_UNSPECIFIED")
         ELSE IF time_in_force = "FOK" THEN Returned("TIME_IN_FORCE_FILL_OR_KILL")
         ELSE IF time_in_force = "IOC" THEN Returned("TIME_IN_FORCE_IOC")
         ELSE Raised(ErrInvalidTimeInForce)
    ELSE Raised(ErrInvalidOrderType)

calculate_execution_condition(reduce_only) ==
    IF reduce_only THEN "EXECUTION_CONDITION_REDUCE_ONLY" ELSE "EXECUTION_CONDITION_UNSPECIFIED"

calculate_order_flags_by_tif(order_type, time_in_force) ==
    IF order_type \in {"MARKET", "LIMIT"}
    THEN IF time_in_force \in {"IOC", "FOK"} THEN ORDER_FLAGS_SHORT_TERM
         ELSE ORDER_FLAGS_LONG_TERM
    ELSE ORDER_FLAGS_CONDITIONAL

calculate_order_flags_tif_first(order_type, time_in_force) ==
    IF time_in_force \in {"IOC", "FOK"} THEN ORDER_FLAGS_SHORT_TERM
    ELSE IF order_type = "MARKET" THEN ORDER_FLAGS_SHORT_TERM
    ELSE IF order_type = "LIMIT" THEN ORDER_FLAGS_LONG_TERM
    ELSE ORDER_FLAGS_CONDITIONAL

calculate_order_flags(order_type, time_in_force) ==
    IF order_type = "MARKET" THEN ORDER_FLAGS_SHORT_TERM
    ELSE IF order_type = "LIMIT"
    THEN IF time_in_force = "GTT" THEN ORDER_FLAGS_LONG_TERM
         ELSE ORDER_FLAGS_SHORT_TERM
    ELSE ORDER_FLAGS_CONDITIONAL

calculate_client_metadata_market_only(order_type) ==
    IF order_type = "MARKET" THEN 1 ELSE 0

calculate_client_metadata(order_type) ==
    IF order_type \in {"MARKET", "STOP_MARKET", "TAKE_PROFIT_MARKET"} THEN 1 ELSE 0

calculate_condition_type_swapped(order_type) ==
    IF order_type = "LIMIT" THEN Returned("CONDITION_TYPE_UNSPECIFIED")
    ELSE IF order_type = "MARKET" THEN Returned("CONDITION_TYPE_UNSPECIFIED")
    ELSE IF order_type \in {"STOP_LIMIT", "STOP_MARKET"}
    THEN Returned("CONDITION_TYPE_TAKE_PROFIT")
    ELSE IF order_type \in {"TAKE_PROFIT_LIMIT", "TAKE_PROFIT_MARKET"}
    THEN Returned("CONDITION_TYPE_STOP_LOSS")
    ELSE Raised(ErrInvalidOrderType)

calculate_condition_type(order_type) ==
    IF order_type = "LIMIT" THEN Returned("CONDITION_TYPE_UNSPECIFIED")
    ELSE IF order_type = "MARKET" THEN Returned("CONDITION_TYPE_UNSPECIFIED")
    ELSE IF order_type \in {"STOP_LIMIT", "STOP_MARKET"}
    THEN Returned("CONDITION_TYPE_STOP_LOSS")
    ELSE IF order_type \in {"TAKE_PROFIT_LIMIT", "TAKE_PROFIT_MARKET"}
    THEN Returned("CONDITION_TYPE_TAKE_PROFIT")
    ELSE Raised(ErrInvalidOrderType)

ErrMissingTriggerPrice == "ValueError: trigger_price is required for conditional orders"

calculate_conditional_order_trigger_subticks_no_minimum(order_type, atomic_resolution, quantum_conversion_exponent, subticks_per_tick, trigger_price) ==
    IF order_type \in {"LIMIT", "MARKET"} THEN Returned(0)
    ELSE IF order_type \in {"STOP_LIMIT", "STOP_MARKET", "TAKE_PROFIT_LIMIT", "TAKE_PROFIT_MARKET"}
    THEN IF trigger_price = None THEN Raised(ErrMissingTriggerPrice)
         ELSE Returned(calculate_subticks_no_minimum(ValueOf(trigger_price), atomic_resolution,
                                                     quantum_conversion_exponent,
                                                     subticks_per_tick))
    ELSE Raised(ErrInvalidOrderType)

calculate_conditional_order_trigger_subticks_lenient(order_type, atomic_resolution, quantum_conversion_exponent, subticks_per_tick, trigger_price) ==
    IF order_type \in {"LIMIT", "MARKET"} THEN Returned(0)
    ELSE IF order_type \in {"STOP_LIMIT", "STOP_MARKET", "TAKE_PROFIT_LIMIT", "TAKE_PROFIT_MARKET"}
    THEN IF trigger_price = None THEN Returned(0)
         ELSE Returned(calculate_subticks(ValueOf(trigger_price), atomic_resolution,
                                          quantum_conversion_exponent, subticks_per_tick))
    ELSE Raised(ErrInvalidOrderType)

calculate_conditional_order_trigger_subticks(order_type, atomic_resolution, quantum_conversion_exponent, subticks_per_tick, trigger_price) ==
    IF order_type \in {"LIMIT", "MARKET"} THEN Returned(0)
    ELSE IF order_type \in {"STOP_LIMIT", "STOP_MARKET", "TAKE_PROFIT_LIMIT", "TAKE_PROFIT_MARKET"}
    THEN IF trigger_price = None THEN Raised(ErrMissingTriggerPrice)
         ELSE Returned(calculate_subticks(ValueOf(trigger_price), atomic_resolution,
                                          quantum_conversion_exponent, subticks_per_tick))
    ELSE Raised(ErrInvalidOrderType)

(***************************************************************************)
(* dydx_composite_client.py: the good-til fields.                          *)
(***************************************************************************)
\* the validator client's latest_block_height(): a height, or a failed query
ChainOk(h) == [ok |-> TRUE, height |-> h]

ChainDown == [ok |-> FALSE, height |-> 0]

ErrChainQuery == "Exception: latest_block_height failed"

ErrGoodTilBlockOutOfWindow == "Exception: Invalid Short-Term order GoodTilBlock"

\* the error validate_good_til_block raises, NoError when it returns
validate_good_til_block(good_til_block, latest_block_height, chain) ==
    IF latest_block_height = None /\ ~chain.ok THEN ErrChainQuery
    ELSE LET height == IF latest_block_height = None THEN chain.height
                       ELSE ValueOf(latest_block_height)
             next_valid_block_height == height + 1
             lower_bound == next_valid_block_height
             upper_bound == next_valid_block_height + SHORT_BLOCK_WINDOW
         IN  IF good_til_block < lower_bound \/ good_til_block > upper_bound
             THEN ErrGoodTilBlockOutOfWindow
             ELSE NoError

calculate_good_til_block_unchecked(good_til_blocks, latest_height, chain) ==
    IF latest_height = None /\ ~chain.ok THEN Raised(ErrChainQuery)
    ELSE LET height == IF latest_height = None THEN chain.height ELSE ValueOf(latest_height)
         IN  Returned(height + good_til_blocks)

calculate_good_til_block(good_til_blocks, latest_height, chain) ==
    IF latest_height = None /\ ~chain.ok THEN Raised(ErrChainQuery)
    ELSE LET height == IF latest_height = None THEN chain.height ELSE ValueOf(latest_height)
             good_til_block == height + good_til_blocks
             invalid == validate_good_til_block(good_til_block, Some(height), chain)
         IN  IF invalid # NoError THEN Raised(invalid) ELSE Returned(good_til_block)

\* int((datetime.now() + timedelta(seconds)).timestamp()), the clock in ticks
calculate_good_til_block_time(good_til_time_in_seconds, now) ==
    TruncDiv(now + good_til_time_in_seconds * TicksPerSecond, TicksPerSecond)

generate_good_til_fields_both(order_flags, good_til_blocks, good_til_seconds, latest_height, chain, now) ==
    LET gtb == calculate_good_til_block(good_til_blocks, latest_height, chain)
    IN  IF gtb.err # NoError THEN gtb
        ELSE Returned(<<gtb.ret, calculate_good_til_block_time(good_til_seconds, now)>>)

generate_good_til_fields_windowed(order_flags, good_til_blocks, good_til_seconds, latest_height, chain, now) ==
    LET gtb == calculate_good_til_block(good_til_blocks, latest_height, chain)
    IN  IF gtb.err # NoError THEN gtb
        ELSE IF is_stateful(order_flags)
        THEN Returned(<<0, calculate_good_til_block_time(good_til_seconds, now)>>)
        ELSE Returned(<<gtb.ret, 0>>)

generate_good_til_fields(order_flags, good_til_blocks, good_til_seconds, latest_height, chain, now) ==
    IF is_stateful(order_flags)
    THEN Returned(<<0, calculate_good_til_block_time(good_til_seconds, now)>>)
    ELSE LET gtb == calculate_good_til_block(good_til_blocks, latest_height, chain)
         IN  IF gtb.err # NoError THEN gtb ELSE Returned(<<gtb.ret, 0>>)

\* the latest_block_height calls of validate_good_til_block (lines 83-84)
validate_good_til_block_queries(latest_block_height) ==
    IF latest_block_height = None THEN 1 ELSE 0

calculate_good_til_block_queries_unforwarded(latest_height, chain) ==
    IF latest_height = None
    THEN IF chain.ok THEN 1 + validate_good_til_block_queries(latest_height) ELSE 1
    ELSE validate_good_til_block_queries(latest_height)

\* the latest_block_height calls of calculate_good_til_block: its own when no
\* height was passed (lines 50-51), then those of validate_good_til_block, which
\* is reached with the height in hand (line 54) unless the query raised
calculate_good_til_block_queries(latest_height, chain) ==
    IF latest_height = None
    THEN IF chain.ok THEN 1 + validate_good_til_block_queries(Some(chain.height)) ELSE 1
    ELSE validate_good_til_block_queries(latest_height)

\* the latest_block_height calls of generate_good_til_fields (lines 74-77)
generate_good_til_fields_queries(order_flags, latest_height, chain) ==
    IF is_stateful(order_flags) THEN 0
    ELSE calculate_good_til_block_queries(latest_height, chain)

(***************************************************************************)
(* composer.py.  A message is a record of the fields the composer sets; a  *)
(* field of MsgCancelOrder that is not set holds the proto default 0 and   *)
(* is missing from the set "has".                                          *)
(***************************************************************************)
\* the numbers of Order.ConditionType; a Python None in the place of one is
\* written "None"
ConditionType ==
    {"CONDITION_TYPE_UNSPECIFIED", "CONDITION_TYPE_STOP_LOSS", "CONDITION_TYPE_TAKE_PROFIT"}

\* Order(condition_type=v): v must be a number of the enum, None leaves the
\* field at its default
ErrOrderFieldType == "TypeError: Order.condition_type takes an Order.ConditionType number"

\* time_in_force holds time_in_force.value, the member the caller passed
MsgPlaceOrder(a) ==
    [type |-> "MsgPlaceOrder",
     order_id |-> [owner |-> a.address, number |-> a.subaccount_number,
                   client_id |-> a.client_id, order_flags |-> a.order_flags,
                   clob_pair_id |-> a.clob_pair_id],
     side |-> a.side, quantums |-> a.quantums, subticks |-> a.subticks,
     good_til_block |-> a.good_til_block, good_til_block_time |-> a.good_til_block_time,
     time_in_force |-> a.time_in_force, reduce_only |-> a.reduce_only,
     client_metadata |-> a.client_metadata,
     condition_type |-> IF a.condition_type = "None" THEN "CONDITION_TYPE_UNSPECIFIED"
                        ELSE a.condition_type,
     conditional_order_trigger_subticks |-> a.conditional_order_trigger_subticks]

MsgCancelOrder_both_fields(a, is_stateful_order) ==
    [type |-> "MsgCancelOrder",
     order_id |-> [owner |-> a.address, number |-> a.subaccount_number,
                   client_id |-> a.client_id, order_flags |-> a.order_flags,
                   clob_pair_id |-> a.clob_pair_id],
     good_til_block |-> a.good_til_block,
     good_til_block_time |-> a.good_til_block_time,
     has |-> {"good_til_block", "good_til_block_time"}]

MsgCancelOrder(a, is_stateful_order) ==
    [type |-> "MsgCancelOrder",
     order_id |-> [owner |-> a.address, number |-> a.subaccount_number,
                   client_id |-> a.client_id, order_flags |-> a.order_flags,
                   clob_pair_id |-> a.clob_pair_id],
     good_til_block |-> IF is_stateful_order THEN 0 ELSE a.good_til_block,
     good_til_block_time |-> IF is_stateful_order THEN a.good_til_block_time ELSE 0,
     has |-> IF is_stateful_order THEN {"good_til_block_time"} ELSE {"good_til_block"}]

compose_msg_place_order_unvalidated(a) ==
    LET is_stateful_order == is_order_flag_stateful_order(a.order_flags)
    IN  IF is_stateful_order.err # NoError THEN Raised(is_stateful_order.err)
        ELSE Returned(MsgPlaceOrder(a))

compose_msg_place_order(a) ==
    LET is_stateful_order == is_order_flag_stateful_order(a.order_flags)
    IN  IF is_stateful_order.err # NoError THEN Raised(is_stateful_order.err)
        ELSE LET invalid == validate_good_til_fields(is_stateful_order.ret,
                                                     a.good_til_block_time, a.good_til_block)
             IN  IF invalid # NoError THEN Raised(invalid)
                 ELSE IF a.condition_type \notin ConditionType \cup {"None"}
                 THEN Raised(ErrOrderFieldType)
                 ELSE Returned(MsgPlaceOrder(a))

compose_msg_cancel_order(a) ==
    LET is_stateful_order == is_order_flag_stateful_order(a.order_flags)
    IN  IF is_stateful_order.err # NoError THEN Raised(is_stateful_order.err)
        ELSE LET invalid == validate_good_til_fields(is_stateful_order.ret,
                                                     a.good_til_block_time, a.good_til_block)
             IN  IF invalid # NoError THEN Raised(invalid)
                 ELSE Returned(MsgCancelOrder(a, is_stateful_order.ret))

\* a dict is the sequence of its items, in insertion order, with distinct keys
OrderBatch(clob_pair_id, client_ids) ==
    [clob_pair_id |-> clob_pair_id, client_ids |-> client_ids]

\* the loop over cancel_orders.items(), appending to short_term_cancels
RECURSIVE AppendOrderBatches(_, _)
AppendOrderBatches(short_term_cancels, items) ==
    IF items = <<>> THEN short_term_cancels
    ELSE AppendOrderBatches(
             Append(short_term_cancels, OrderBatch(Head(items)[1], Head(items)[2])),
             Tail(items))

MsgBatchCancel(address, subaccount_number, short_term_cancels, good_til_block) ==
    [type |-> "MsgBatchCancel",
     subaccount_id |-> [owner |-> address, number |-> subaccount_number],
     short_term_cancels |-> short_term_cancels,
     good_til_block |-> good_til_block]

compose_msg_batch_cancel_reversed(address, subaccount_number, cancel_orders, good_til_block) ==
    LET n == Len(cancel_orders)
        short_term_cancels ==
            [i \in 1 .. n |-> OrderBatch(cancel_orders[n + 1 - i][1], cancel_orders[n + 1 - i][2])]
    IN  Returned(MsgBatchCancel(address, subaccount_number, short_term_cancels, good_til_block))

compose_msg_batch_cancel(address, subaccount_number, cancel_orders, good_til_block) ==
    LET short_term_cancels == AppendOrderBatches(<<>>, cancel_orders)
    IN  Returned(MsgBatchCancel(address, subaccount_number, short_term_cancels, good_til_block))

(***************************************************************************)
(* modules/post.py.  An operation that may broadcast returns, next to err  *)
(* and ret, the sequence "sent" of what it handed to the broadcast         *)
(* collaborator.                                                           *)
(***************************************************************************)
SubmittedTx == "SubmittedTx"

\* constants.py: the members of BroadcastMode
BroadcastMode == {"BroadcastTxSync", "BroadcastTxCommit"}

default_broadcast_mode_always_sync(msg) ==
    IF msg.type = "MsgPlaceOrder" THEN "BroadcastTxSync" ELSE "BroadcastTxSync"

default_broadcast_mode(msg) ==
    IF msg.type = "MsgPlaceOrder"
    THEN LET order_flags == msg.order_id.order_flags
         IN  IF order_flags = ORDER_FLAGS_SHORT_TERM THEN "BroadcastTxSync"
             ELSE IF order_flags = ORDER_FLAGS_LONG_TERM THEN "BroadcastTxCommit"
             ELSE "BroadcastTxCommit"
    ELSE "BroadcastTxSync"

\* prepare_and_broadcast_basic_transaction: the message, its mode and its fee
send_message(msg, zeroFee, broadcast_mode) ==
    [err |-> NoError, ret |-> SubmittedTx,
     sent |-> << [msg |-> msg, zeroFee |-> zeroFee,
                  broadcast_mode |-> IF broadcast_mode # None THEN ValueOf(broadcast_mode)
                                     ELSE default_broadcast_mode(msg)] >>]

NothingSent(r) == [err |-> r.err, ret |-> r.ret, sent |-> <<>>]

Post_place_order(a, broadcast_mode) ==
    LET msg == compose_msg_place_order(a)
    IN  IF msg.err # NoError THEN NothingSent(msg)
        ELSE send_message(msg.ret, TRUE, broadcast_mode)

Post_cancel_order(a, broadcast_mode) ==
    LET msg == compose_msg_cancel_order(a)
    IN  IF msg.err # NoError THEN NothingSent(msg)
        ELSE send_message(msg.ret, TRUE, broadcast_mode)

\* the subaccount every call is made for
Subaccount == [address |-> "dydx1", subaccount_number |-> 0]

\* dict.get(key, default) of a key that may be missing
Get(value, default) == IF value = None THEN default ELSE ValueOf(value)

\* place_order_object passes broadcast_mode as the 13th positional argument of
\* place_order, whose 13th parameter is condition_type; conditional_order_
\* trigger_subticks and broadcast_mode keep their defaults 0 and None
Post_place_order_object(place_order, broadcast_mode) ==
    Post_place_order(
        [address |-> Subaccount.address, subaccount_number |-> Subaccount.subaccount_number,
         client_id |-> place_order.clientId, clob_pair_id |-> place_order.clobPairId,
         side |-> place_order.side, quantums |-> place_order.quantums,
         subticks |-> place_order.subticks, time_in_force |-> place_order.timeInForce,
         order_flags |-> place_order.orderFlags, reduce_only |-> place_order.reduceOnly,
         good_til_block |-> Get(place_order.goodTilBlock, 0),
         good_til_block_time |-> Get(place_order.goodTilBlockTime, 0),
         client_metadata |-> Get(place_order.clientMetadata, 0),
         condition_type |-> IF broadcast_mode = None THEN "None" ELSE ValueOf(broadcast_mode),
         conditional_order_trigger_subticks |-> 0],
        None)

\* cancel_order_object passes broadcast_mode by keyword
Post_cancel_order_object(cancel_order, broadcast_mode) ==
    Post_cancel_order(
        [address |-> Subaccount.address, subaccount_number |-> Subaccount.subaccount_number,
         client_id |-> cancel_order.clientId, clob_pair_id |-> cancel_order.clobPairId,
         order_flags |-> cancel_order.orderFlags,
         good_til_block |-> Get(cancel_order.goodTilBlock, 0),
         good_til_block_time |-> Get(cancel_order.goodTilBlockTime, 0)],
        broadcast_mode)

(***************************************************************************)
(* dydx_composite_client.py: place_order.                                  *)
(***************************************************************************)
ErrMissingPostOnly ==
    "TypeError: calculate_time_in_force() missing 1 required positional argument: 'post_only'"

place_order(a, chain, now) ==
    LET trigger_price == IF ~a.trigger_price_given THEN Some(float_of_int(0))
                         ELSE IF a.trigger_price = None THEN None
                         ELSE Some(float(ValueOf(a.trigger_price)))
        market_info == a.market_info
        clob_pair_id == market_info.clobPairId
        atomic_resolution == market_info.atomicResolution
        step_base_quantums == market_info.stepBaseQuantums
        quantum_conversion_exponent == market_info.quantumConversionExponent
        subticks_per_tick == market_info.subticksPerTick
        order_side == calculate_side(a.side)
        quantums == calculate_quantums(float(a.size), atomic_resolution, step_base_quantums)
        subticks == calculate_subticks(float(a.price), atomic_resolution,
                                       quantum_conversion_exponent, subticks_per_tick)
        order_flags == calculate_order_flags(a.type, a.time_in_force)
        \* calculate_time_in_force(type, time_in_force): post_only is not passed
        order_time_in_force == Raised(ErrMissingPostOnly)
        good_til == generate_good_til_fields(order_flags, a.good_til_blocks,
                                             a.good_til_seconds, a.latest_height, chain, now)
        client_metadata == calculate_client_metadata(a.type)
        condition_type == calculate_condition_type(a.type)
        conditional_order_trigger_subticks ==
            calculate_conditional_order_trigger_subticks(
                a.type, atomic_resolution, quantum_conversion_exponent, subticks_per_tick,
                trigger_price)
    IN  IF order_time_in_force.err # NoError THEN NothingSent(order_time_in_force)
        ELSE IF good_til.err # NoError THEN NothingSent(good_til)
        ELSE IF condition_type.err # NoError THEN NothingSent(condition_type)
        ELSE IF conditional_order_trigger_subticks.err # NoError
        THEN NothingSent(conditional_order_trigger_subticks)
        ELSE Post_place_order(
                 [address |-> Subaccount.address,
                  subaccount_number |-> Subaccount.subaccount_number,
                  client_id |-> a.client_id, clob_pair_id |-> clob_pair_id,
                  order_flags |-> order_flags,
                  good_til_block |-> good_til.ret[1],
                  good_til_block_time |-> good_til.ret[2],
                  side |-> order_side, quantums |-> quantums, subticks |-> subticks,
                  time_in_force |-> order_time_in_force.ret,
                  reduce_only |-> a.reduce_only, client_metadata |-> client_metadata,
                  condition_type |-> condition_type.ret,
                  conditional_order_trigger_subticks |->
                      conditional_order_trigger_subticks.ret],
                 a.broadcast_mode)

(***************************************************************************)
(* dydx_composite_client.py: place_short_term_order.  time_in_force is     *)
(* handed on as the caller passed it.                                      *)
(***************************************************************************)
place_short_term_order_flags_by_type(a, chain, now) ==
    LET market_info == a.market_info
        clob_pair_id == market_info.clobPairId
        atomic_resolution == market_info.atomicResolution
        step_base_quantums == market_info.stepBaseQuantums
        quantum_conversion_exponent == market_info.quantumConversionExponent
        subticks_per_tick == market_info.subticksPerTick
        order_side == calculate_side(a.side)
        quantums == calculate_quantums(float(a.size), atomic_resolution, step_base_quantums)
        subticks == calculate_subticks(float(a.price), atomic_resolution,
                                       quantum_conversion_exponent, subticks_per_tick)
        order_flags == calculate_order_flags(a.type, "IOC")
        client_metadata == calculate_client_metadata(a.type)
        good_til == generate_good_til_fields(order_flags, a.good_til_blocks, 0,
                                             a.latest_height, chain, now)
        condition_type == "CONDITION_TYPE_UNSPECIFIED"
        conditional_order_trigger_subticks == 0
    IN  IF good_til.err # NoError THEN NothingSent(good_til)
        ELSE Post_place_order(
                 [address |-> Subaccount.address,
                  subaccount_number |-> Subaccount.subaccount_number,
                  client_id |-> a.client_id, clob_pair_id |-> clob_pair_id,
                  side |-> order_side, quantums |-> quantums, subticks |-> subticks,
                  time_in_force |-> a.time_in_force, order_flags |-> order_flags,
                  reduce_only |-> a.reduce_only,
                  good_til_block |-> good_til.ret[1],
                  good_til_block_time |-> good_til.ret[2],
                  client_metadata |-> client_metadata,
                  condition_type |-> condition_type,
                  conditional_order_trigger_subticks |->
                      conditional_order_trigger_subticks],
                 a.broadcast_mode)

\* order_flags is OrderFlags.SHORT_TERM
place_short_term_order(a, chain, now) ==
    LET market_info == a.market_info
        clob_pair_id == market_info.clobPairId
        atomic_resolution == market_info.atomicResolution
        step_base_quantums == market_info.stepBaseQuantums
        quantum_conversion_exponent == market_info.quantumConversionExponent
        subticks_per_tick == market_info.subticksPerTick
        order_side == calculate_side(a.side)
        quantums == calculate_quantums(float(a.size), atomic_resolution, step_base_quantums)
        subticks == calculate_subticks(float(a.price), atomic_resolution,
                                       quantum_conversion_exponent, subticks_per_tick)
        order_flags == ORDER_FLAGS_SHORT_TERM
        client_metadata == calculate_client_metadata(a.type)
        good_til == generate_good_til_fields(order_flags, a.good_til_blocks, 0,
                                             a.latest_height, chain, now)
        condition_type == "CONDITION_TYPE_UNSPECIFIED"
        conditional_order_trigger_subticks == 0
    IN  IF good_til.err # NoError THEN NothingSent(good_til)
        ELSE Post_place_order(
                 [address |-> Subaccount.address,
                  subaccount_number |-> Subaccount.subaccount_number,
                  client_id |-> a.client_id, clob_pair_id |-> clob_pair_id,
                  side |-> order_side, quantums |-> quantums, subticks |-> subticks,
                  time_in_force |-> a.time_in_force, order_flags |-> order_flags,
                  reduce_only |-> a.reduce_only,
                  good_til_block |-> good_til.ret[1],
                  good_til_block_time |-> good_til.ret[2],
                  client_metadata |-> client_metadata,
                  condition_type |-> condition_type,
                  conditional_order_trigger_subticks |->
                      conditional_order_trigger_subticks],
                 a.broadcast_mode)

(***************************************************************************)
(* dydx_socket_client.py.  A time stamp is held as the whole seconds that    *)
(* have passed since it was taken, which is all the code reads of it; the  *)
(* count stops one above the threshold it is compared with.                *)
(***************************************************************************)
\* _ping_thread_func pings after more than 30 s without activity
InactivitySeconds == 30

\* _ping_thread_func closes the socket when a pong is more than 5 s late
PongTimeoutSeconds == 5

\* time.time() - stamp one second later, counted up to cap
Elapsed(stamp, cap) ==
    IF stamp = None THEN None
    ELSE IF ValueOf(stamp) >= cap THEN Some(cap) ELSE Some(ValueOf(stamp) + 1)

\* SocketClient.__init__, before connect()
SocketNew ==
    /\ conn = "init"
    /\ last_activity_time = None
    /\ ping_sent_time = None
    /\ ping_thread = None
    /\ ping_pc = "none"
    /\ ws_pc = "idle"
    /\ inbox = <<>>
    /\ outbox = <<>>
    /\ delivered = {}
    /\ closer = "none"
    /\ late = FALSE

(***************************************************************************)
(* The calls.                                                              *)
(***************************************************************************)
Heights == 0 .. MaxHeight

GoodTilBlocksInputs == -1 .. MaxGoodTilBlocks

GoodTilSecondsInputs == -MaxSeconds .. MaxSeconds

ClockInputs == 1 .. MaxNowTicks

ChainInputs == {ChainDown} \cup {ChainOk(h) : h \in Heights}

LatestHeightInputs == {None} \cup {Some(h) : h \in Heights}

GoodTilInputs == 0 .. MaxGoodTil

\* an order type that is no member of OrderType (a combination of two flags)
OrderTypeInputs == OrderType \cup {"MARKET|LIMIT"}

\* the members of OrderTimeInForce and the GTX of clients/constants.py
TimeInForceInputs == OrderTimeInForce \cup {TIME_IN_FORCE_GTX}

\* the three order flags and an integer that is none of them
OrderFlagInputs == OrderFlags \cup {1}

\* the market the orders are placed in
MarketInfo ==
    [clobPairId |-> 0, atomicResolution |-> -2, stepBaseQuantums |-> 10,
     quantumConversionExponent |-> 3, subticksPerTick |-> 100]

\* the arguments of one call of each operation
GenerateGoodTilFieldsInputs ==
    [order_flags : OrderFlags, good_til_blocks : GoodTilBlocksInputs,
     good_til_seconds : GoodTilSecondsInputs, latest_height : LatestHeightInputs,
     chain : ChainInputs, now : ClockInputs]

ValidateGoodTilFieldsInputs ==
    [is_stateful_order : BOOLEAN, good_til_block_time : GoodTilInputs,
     good_til_block : GoodTilInputs]

ComposeMsgPlaceOrderInputs ==
    [address : {Subaccount.address}, subaccount_number : {Subaccount.subaccount_number},
     client_id : {0, 1}, clob_pair_id : {0, 1}, order_flags : OrderFlagInputs,
     good_til_block : GoodTilInputs, good_til_block_time : GoodTilInputs,
     side : {"SIDE_BUY", "SIDE_SELL"}, quantums : {10}, subticks : {100},
     time_in_force : {"TIME_IN_FORCE_UNSPECIFIED", "TIME_IN_FORCE_IOC"},
     reduce_only : BOOLEAN, client_metadata : {0, 1},
     condition_type : {"CONDITION_TYPE_UNSPECIFIED"},
     conditional_order_trigger_subticks : {0}]

ComposeMsgCancelOrderInputs ==
    [address : {Subaccount.address}, subaccount_number : {Subaccount.subaccount_number},
     client_id : {0, 1}, clob_pair_id : {0, 1}, order_flags : OrderFlagInputs,
     good_til_block : GoodTilInputs, good_til_block_time : GoodTilInputs]

CalculateOrderFlagsInputs == [order_type : OrderTypeInputs, time_in_force : TimeInForceInputs]

CalculateTimeInForceInputs ==
    [order_type : OrderTypeInputs, time_in_force : TimeInForceInputs, post_only : BOOLEAN]

\* the decimals a caller passes as price, size or trigger price
Decimals == [m : -1 .. MaxMantissa, e : -2 .. 0]

CalculateQuantumsInputs ==
    [size : Decimals, atomic_resolution : {-2, -1, 0, 1}, step_base_quantums : {1, 2, 10}]

\* the exponent atomic_resolution - quantum_conversion_exponent + 6 is -1 .. 3
CalculateSubticksInputs ==
    [price : Decimals, atomic_resolution : {-2, -1}, quantum_conversion_exponent : 2 .. 5,
     subticks_per_tick : {1, 5, 100}]

CalculateConditionalOrderTriggerSubticksInputs ==
    [order_type : OrderTypeInputs, atomic_resolution : {-2, -1},
     quantum_conversion_exponent : {2, 3}, subticks_per_tick : {1, 100},
     trigger_price : {None} \cup {Some(d) : d \in [m : {0, 7, 29}, e : {-2, 0}]}]

\* trigger_price_given = FALSE: the caller leaves trigger_price to its default 0
PlaceOrderInputs ==
    [type : OrderTypeInputs, side : {"BUY", "SELL"}, price : {[m |-> 15, e |-> 0]},
     size : {[m |-> 25, e |-> -1]}, client_id : {0}, time_in_force : TimeInForceInputs,
     good_til_blocks : GoodTilBlocksInputs, good_til_seconds : {MaxSeconds},
     reduce_only : {FALSE}, trigger_price : {None, Some([m |-> 14, e |-> 0])},
     trigger_price_given : BOOLEAN,
     market_info : {MarketInfo}, latest_height : LatestHeightInputs,
     broadcast_mode : {None}, chain : ChainInputs, now : {MaxNowTicks}]

\* the client-id lists of a batch cancel
ClientIdsInputs == {<<>>, <<1>>, <<2, 1>>}

\* the dicts of at most MaxBatch markets, as item sequences
CancelOrdersInputs ==
    {d \in UNION {[1 .. n -> (0 .. MaxClobPairId) \X ClientIdsInputs] : n \in 0 .. MaxBatch} :
        \A i, j \in DOMAIN d : i # j => d[i][1] # d[j][1]}

ComposeMsgBatchCancelInputs ==
    [address : {Subaccount.address}, subaccount_number : {Subaccount.subaccount_number},
     cancel_orders : CancelOrdersInputs, good_til_block : GoodTilInputs]

IsOrderFlagStatefulOrderInputs == [order_flag : -1 .. MaxOrderFlag]

CalculateClientMetadataInputs == [order_type : OrderTypeInputs]

CalculateConditionTypeInputs == [order_type : OrderTypeInputs]

\* the three resolvers of conditionality, applied to one order as place_order
\* and place_order's callers apply them
ResolveConditionalityInputs ==
    [order_type : OrderType, time_in_force : TimeInForceInputs,
     atomic_resolution : {-2}, quantum_conversion_exponent : {3, 5},
     subticks_per_tick : {1, 100},
     trigger_price : {Some(d) : d \in [m : {-1, 0, 7, 29}, e : {-2, 0}]}]

BroadcastModeInputs == {None} \cup {Some(b) : b \in BroadcastMode}

\* the messages of the composer: a place-order message of each order flag and
\* one message of every other type
MessageInputs ==
    {[type |-> "MsgPlaceOrder", order_id |-> [order_flags |-> f]] : f \in OrderFlags}
        \cup {[type |-> t] : t \in {"MsgCancelOrder", "MsgBatchCancel", "MsgCreateTransfer",
                                     "MsgDepositToSubaccount", "MsgWithdrawFromSubaccount"}}

SendMessageInputs ==
    [msg : MessageInputs, zeroFee : BOOLEAN, broadcast_mode : BroadcastModeInputs]

\* a key the dict may lack is None when it is missing
PlaceOrderObjectInputs ==
    [place_order : [clientId : {0}, clobPairId : {0}, side : {"SIDE_BUY"}, quantums : {10},
                    subticks : {100}, timeInForce : {"TIME_IN_FORCE_UNSPECIFIED"},
                    orderFlags : OrderFlagInputs, reduceOnly : {FALSE},
                    goodTilBlock : {None} \cup {Some(g) : g \in GoodTilInputs},
                    goodTilBlockTime : {None} \cup {Some(g) : g \in GoodTilInputs},
                    clientMetadata : {None, Some(1)}],
     broadcast_mode : BroadcastModeInputs]

CancelOrderObjectInputs ==
    [cancel_order : [clientId : {0}, clobPairId : {0}, orderFlags : OrderFlagInputs,
                     goodTilBlock : {None} \cup {Some(g) : g \in GoodTilInputs},
                     goodTilBlockTime : {None} \cup {Some(g) : g \in GoodTilInputs}],
     broadcast_mode : BroadcastModeInputs]

PlaceShortTermOrderInputs ==
    [type : OrderTypeInputs, side : {"SELL"}, price : {[m |-> 15, e |-> 0]},
     size : {[m |-> 25, e |-> -1]}, client_id : {0}, good_til_blocks : GoodTilBlocksInputs,
     time_in_force : {"TIME_IN_FORCE_IOC"},
     reduce_only : {FALSE}, market_info : {MarketInfo}, latest_height : LatestHeightInputs,
     broadcast_mode : {None, Some("BroadcastTxCommit")}, chain : ChainInputs,
     now : {MaxNowTicks}]

\* a call is pending: the caller has chosen the operation and its arguments
Init ==
    /\ pc = "call"
    /\ output = Returned(NoValue)
    /\ sent = <<>>
    /\ queries = 0
    /\ SocketNew
    /\ \/ op = "generate_good_til_fields" /\ input \in GenerateGoodTilFieldsInputs
       \/ op = "validate_good_til_fields" /\ input \in ValidateGoodTilFieldsInputs
       \/ op = "compose_msg_place_order" /\ input \in ComposeMsgPlaceOrderInputs
       \/ op = "compose_msg_cancel_order" /\ input \in ComposeMsgCancelOrderInputs
       \/ op = "calculate_order_flags" /\ input \in CalculateOrderFlagsInputs
       \/ op = "calculate_time_in_force" /\ input \in CalculateTimeInForceInputs
       \/ op = "place_order" /\ input \in PlaceOrderInputs
       \/ op = "compose_msg_batch_cancel" /\ input \in ComposeMsgBatchCancelInputs
       \/ op = "is_order_flag_stateful_order" /\ input \in IsOrderFlagStatefulOrderInputs
       \/ op = "calculate_client_metadata" /\ input \in CalculateClientMetadataInputs
       \/ op = "calculate_condition_type" /\ input \in CalculateConditionTypeInputs
       \/ op = "resolve_conditionality" /\ input \in ResolveConditionalityInputs
       \/ op = "send_message" /\ input \in SendMessageInputs
       \/ op = "place_order_object" /\ input \in PlaceOrderObjectInputs
       \/ op = "cancel_order_object" /\ input \in CancelOrderObjectInputs
       \/ op = "place_short_term_order" /\ input \in PlaceShortTermOrderInputs
       \/ op = "calculate_quantums" /\ input \in CalculateQuantumsInputs
       \/ op = "calculate_subticks" /\ input \in CalculateSubticksInputs
       \/ op = "calculate_conditional_order_trigger_subticks"
              /\ input \in CalculateConditionalOrderTriggerSubticksInputs

GenerateGoodTilFields ==
    /\ pc = "call" /\ op = "generate_good_til_fields"
    /\ output' = generate_good_til_fields(input.order_flags, input.good_til_blocks,
                                          input.good_til_seconds, input.latest_height,
                                          input.chain, input.now)
    /\ queries' = generate_good_til_fields_queries(input.order_flags, input.latest_height,
                                                   input.chain)
    /\ pc' = "done"
    /\ UNCHANGED <<op, input, sent>>
    /\ UNCHANGED sockvars

ValidateGoodTilFields ==
    /\ pc = "call" /\ op = "validate_good_til_fields"
    /\ output' = LET e == validate_good_til_fields(input.is_stateful_order,
                                                   input.good_til_block_time,
                                                   input.good_til_block)
                 IN  IF e = NoError THEN Returned(NoValue) ELSE Raised(e)
    /\ pc' = "done"
    /\ UNCHANGED <<op, input, sent, queries>>
    /\ UNCHANGED sockvars

ComposeMsgPlaceOrder ==
    /\ pc = "call" /\ op = "compose_msg_place_order"
    /\ output' = compose_msg_place_order(input)
    /\ pc' = "done"
    /\ UNCHANGED <<op, input, sent, queries>>
    /\ UNCHANGED sockvars

ComposeMsgCancelOrder ==
    /\ pc = "call" /\ op = "compose_msg_cancel_order"
    /\ output' = compose_msg_cancel_order(input)
    /\ pc' = "done"
    /\ UNCHANGED <<op, input, sent, queries>>
    /\ UNCHANGED sockvars

ComposeMsgBatchCancel ==
    /\ pc = "call" /\ op = "compose_msg_batch_cancel"
    /\ output' = compose_msg_batch_cancel(input.address, input.subaccount_number,
                                          input.cancel_orders, input.good_til_block)
    /\ pc' = "done"
    /\ UNCHANGED <<op, input, sent, queries>>
    /\ UNCHANGED sockvars

CalculateOrderFlags ==
    /\ pc = "call" /\ op = "calculate_order_flags"
    /\ output' = Returned(calculate_order_flags(input.order_type, input.time_in_force))
    /\ pc' = "done"
    /\ UNCHANGED <<op, input, sent, queries>>
    /\ UNCHANGED sockvars

CalculateTimeInForce ==
    /\ pc = "call" /\ op = "calculate_time_in_force"
    /\ output' = calculate_time_in_force(input.order_type, input.time_in_force,
                                         input.post_only)
    /\ pc' = "done"
    /\ UNCHANGED <<op, input, sent, queries>>
    /\ UNCHANGED sockvars

PlaceOrder ==
    /\ pc = "call" /\ op = "place_order"
    /\ LET r == place_order(input, input.chain, input.now)
       IN  /\ output' = [err |-> r.err, ret |-> r.ret]
           /\ sent' = r.sent
    \* the call raises at line 171, before generate_good_til_fields is reached
    /\ queries' = 0
    /\ pc' = "done"
    /\ UNCHANGED <<op, input>>
    /\ UNCHANGED sockvars

CalculateQuantums ==
    /\ pc = "call" /\ op = "calculate_quantums"
    /\ output' = Returned(calculate_quantums(float(input.size), input.atomic_resolution,
                                             input.step_base_quantums))
    /\ pc' = "done"
    /\ UNCHANGED <<op, input, sent, queries>>
    /\ UNCHANGED sockvars

CalculateSubticks ==
    /\ pc = "call" /\ op = "calculate_subticks"
    /\ output' = Returned(calculate_subticks(float(input.price), input.atomic_resolution,
                                             input.quantum_conversion_exponent,
                                             input.subticks_per_tick))
    /\ pc' = "done"
    /\ UNCHANGED <<op, input, sent, queries>>
    /\ UNCHANGED sockvars

CalculateConditionalOrderTriggerSubticks ==
    /\ pc = "call" /\ op = "calculate_conditional_order_trigger_subticks"
    /\ output' = calculate_conditional_order_trigger_subticks(
                     input.order_type, input.atomic_resolution,
                     input.quantum_conversion_exponent, input.subticks_per_tick,
                     IF input.trigger_price = None THEN None
                     ELSE Some(float(ValueOf(input.trigger_price))))
    /\ pc' = "done"
    /\ UNCHANGED <<op, input, sent, queries>>
    /\ UNCHANGED sockvars

IsOrderFlagStatefulOrder ==
    /\ pc = "call" /\ op = "is_order_flag_stateful_order"
    /\ output' = is_order_flag_stateful_order(input.order_flag)
    /\ pc' = "done"
    /\ UNCHANGED <<op, input, sent, queries>>
    /\ UNCHANGED sockvars

CalculateClientMetadata ==
    /\ pc = "call" /\ op = "calculate_client_metadata"
    /\ output' = Returned(calculate_client_metadata(input.order_type))
    /\ pc' = "done"
    /\ UNCHANGED <<op, input, sent, queries>>
    /\ UNCHANGED sockvars

CalculateConditionType ==
    /\ pc = "call" /\ op = "calculate_condition_type"
    /\ output' = calculate_condition_type(input.order_type)
    /\ pc' = "done"
    /\ UNCHANGED <<op, input, sent, queries>>
    /\ UNCHANGED sockvars

\* the three resolvers run on the same order; ret holds what each returned
ResolveConditionality ==
    /\ pc = "call" /\ op = "resolve_conditionality"
    /\ output' = Returned(
            [order_flags |-> calculate_order_flags(input.order_type, input.time_in_force),
             condition_type |-> calculate_condition_type(input.order_type),
             conditional_order_trigger_subticks |->
                 calculate_conditional_order_trigger_subticks(
                     input.order_type, input.atomic_resolution,
                     input.quantum_conversion_exponent, input.subticks_per_tick,
                     Some(float(ValueOf(input.trigger_price))))])
    /\ pc' = "done"
    /\ UNCHANGED <<op, input, sent, queries>>
    /\ UNCHANGED sockvars

SendMessage ==
    /\ pc = "call" /\ op = "send_message"
    /\ LET r == send_message(input.msg, input.zeroFee, input.broadcast_mode)
       IN  /\ output' = [err |-> r.err, ret |-> r.ret]
           /\ sent' = r.sent
    /\ pc' = "done"
    /\ UNCHANGED <<op, input, queries>>
    /\ UNCHANGED sockvars

PlaceOrderObject ==
    /\ pc = "call" /\ op = "place_order_object"
    /\ LET r == Post_place_order_object(input.place_order, input.broadcast_mode)
       IN  /\ output' = [err |-> r.err, ret |-> r.ret]
           /\ sent' = r.sent
    /\ pc' = "done"
    /\ UNCHANGED <<op, input, queries>>
    /\ UNCHANGED sockvars

CancelOrderObject ==
    /\ pc = "call" /\ op = "cancel_order_object"
    /\ LET r == Post_cancel_order_object(input.cancel_order, input.broadcast_mode)
       IN  /\ output' = [err |-> r.err, ret |-> r.ret]
           /\ sent' = r.sent
    /\ pc' = "done"
    /\ UNCHANGED <<op, input, queries>>
    /\ UNCHANGED sockvars

PlaceShortTermOrder ==
    /\ pc = "call" /\ op = "place_short_term_order"
    /\ LET r == place_short_term_order(input, input.chain, input.now)
       IN  /\ output' = [err |-> r.err, ret |-> r.ret]
           /\ sent' = r.sent
    /\ queries' = generate_good_til_fields_queries(ORDER_FLAGS_SHORT_TERM, input.latest_height,
                                                   input.chain)
    /\ pc' = "done"
    /\ UNCHANGED <<op, input>>
    /\ UNCHANGED sockvars

Next ==
    \/ GenerateGoodTilFields
    \/ ValidateGoodTilFields
    \/ ComposeMsgPlaceOrder
    \/ ComposeMsgCancelOrder
    \/ ComposeMsgBatchCancel
    \/ CalculateOrderFlags
    \/ CalculateTimeInForce
    \/ PlaceOrder
    \/ CalculateQuantums
    \/ CalculateSubticks
    \/ CalculateConditionalOrderTriggerSubticks
    \/ IsOrderFlagStatefulOrder
    \/ CalculateClientMetadata
    \/ CalculateConditionType
    \/ ResolveConditionality
    \/ SendMessage
    \/ PlaceOrderObject
    \/ CancelOrderObject
    \/ PlaceShortTermOrder

Spec == Init /\ [][Next]_vars

(***************************************************************************)
(* SocketClient: the user's calls, the server, the websocket callbacks     *)
(* (run one after another by run_forever) and the keep-alive thread.  The  *)
(* code of both threads is cut at its reads and writes of the two stamps.  *)
(***************************************************************************)
\* connect() on a fresh client; the connection opens and _on_open runs
Connect ==
    /\ conn = "init"
    /\ conn' = "open"
    /\ last_activity_time' = Some(0)
    /\ ping_thread' = Some("Thread")
    /\ ping_pc' = "loop"
    /\ UNCHANGED <<ping_sent_time, ws_pc, inbox, outbox, delivered, closer, late>>
    /\ UNCHANGED callvars

\* send(message), as subscribe and unsubscribe call it
UserSend ==
    /\ conn = "open"
    /\ Len(outbox) < MaxInFlight
    /\ outbox' = Append(outbox, "subscribe")
    /\ last_activity_time' = Some(0)
    /\ UNCHANGED <<conn, ping_sent_time, ping_thread, ping_pc, ws_pc, inbox, delivered,
                   closer, late>>
    /\ UNCHANGED callvars

\* send_ping_if_inactive_for(duration) with a duration above the threshold
UserSendPingIfInactiveFor ==
    /\ last_activity_time # Some(InactivitySeconds + 1)
    /\ last_activity_time' = Some(InactivitySeconds + 1)
    /\ UNCHANGED <<conn, ping_sent_time, ping_thread, ping_pc, ws_pc, inbox, outbox,
                   delivered, closer, late>>
    /\ UNCHANGED callvars

\* close() by the user
UserClose ==
    /\ conn = "open"
    /\ conn' = "closing"
    /\ closer' = "user"
    /\ UNCHANGED <<last_activity_time, ping_sent_time, ping_thread, ping_pc, ws_pc, inbox,
                   outbox, delivered, late>>
    /\ UNCHANGED callvars

\* the server closes the connection
ServerClose ==
    /\ conn = "open"
    /\ conn' = "closing"
    /\ closer' = "server"
    /\ UNCHANGED <<last_activity_time, ping_sent_time, ping_thread, ping_pc, ws_pc, inbox,
                   outbox, delivered, late>>
    /\ UNCHANGED callvars

\* the server sends a frame of its own accord
ServerSend ==
    /\ conn = "open"
    /\ Len(inbox) < MaxInFlight
    /\ \E msg \in {"ping", "pong", "data"} : inbox' = Append(inbox, msg)
    /\ UNCHANGED <<conn, last_activity_time, ping_sent_time, ping_thread, ping_pc, ws_pc,
                   outbox, delivered, closer, late>>
    /\ UNCHANGED callvars

\* the server takes a frame of the client and answers a ping with a pong
ServerReceive ==
    /\ conn = "open"
    /\ outbox # <<>>
    /\ outbox' = Tail(outbox)
    /\ IF Head(outbox) = "ping"
       THEN /\ Len(inbox) < MaxInFlight
            /\ inbox' = Append(inbox, "pong")
       ELSE inbox' = inbox
    /\ UNCHANGED <<conn, last_activity_time, ping_sent_time, ping_thread, ping_pc, ws_pc,
                   delivered, closer, late>>
    /\ UNCHANGED callvars

\* _on_message up to its branch: 'ping' is answered through send, a 'pong' with a
\* ping outstanding goes on to clear the marker, anything else goes to the user's
\* on_message callback
OnMessage ==
    /\ conn = "open"
    /\ ws_pc = "idle"
    /\ inbox # <<>>
    /\ inbox' = Tail(inbox)
    /\ IF Head(inbox) = "ping"
       THEN /\ Len(outbox) < MaxInFlight
            /\ outbox' = Append(outbox, "pong")
            /\ last_activity_time' = Some(0)
            /\ ws_pc' = "touch"
            /\ delivered' = delivered
       ELSE IF Head(inbox) = "pong" /\ ping_sent_time # None
       THEN /\ ws_pc' = "pong_clear"
            /\ UNCHANGED <<outbox, last_activity_time, delivered>>
       ELSE /\ delivered' = delivered \cup {Head(inbox)}
            /\ ws_pc' = "touch"
            /\ UNCHANGED <<outbox, last_activity_time>>
    /\ UNCHANGED <<conn, ping_sent_time, ping_thread, ping_pc, closer, late>>
    /\ UNCHANGED callvars

\* _on_message, pong branch: self.ping_sent_time = None
OnMessageClear ==
    /\ ws_pc = "pong_clear"
    /\ ping_sent_time' = None
    /\ ws_pc' = "touch"
    /\ UNCHANGED <<conn, last_activity_time, ping_thread, ping_pc, inbox, outbox, delivered,
                   closer, late>>
    /\ UNCHANGED callvars

\* _on_message, last line: self.last_activity_time = time.time()
OnMessageTouch ==
    /\ ws_pc = "touch"
    /\ last_activity_time' = Some(0)
    /\ ws_pc' = "idle"
    /\ UNCHANGED <<conn, ping_sent_time, ping_thread, ping_pc, inbox, outbox, delivered,
                   closer, late>>
    /\ UNCHANGED callvars

\* _on_close, once the connection is going down; frames in flight are lost
OnClose ==
    /\ conn = "closing"
    /\ ws_pc = "idle"
    /\ conn' = "closed"
    /\ last_activity_time' = None
    /\ ping_thread' = None
    /\ inbox' = <<>>
    /\ outbox' = <<>>
    /\ UNCHANGED <<ping_sent_time, ping_pc, ws_pc, delivered, closer, late>>
    /\ UNCHANGED callvars

\* _ping_thread_func: while self.ws (the WebSocketApp object, always true), and
\* the truth test of last_activity_time
PingLoop ==
    /\ ping_pc = "loop"
    /\ ping_pc' = IF last_activity_time # None THEN "activity_check" ELSE "pong_check"
    /\ UNCHANGED <<conn, last_activity_time, ping_sent_time, ping_thread, ws_pc, inbox,
                   outbox, delivered, closer, late>>
    /\ UNCHANGED callvars

\* _ping_thread_func: time.time() - self.last_activity_time > 30, a second read
\* of the field, which raises when _on_close has reset it in between
PingActivityCheck ==
    /\ ping_pc = "activity_check"
    /\ ping_pc' = IF last_activity_time = None THEN "crashed"
                  ELSE IF ValueOf(last_activity_time) > InactivitySeconds THEN "send_ping"
                  ELSE "pong_check"
    /\ UNCHANGED <<conn, last_activity_time, ping_sent_time, ping_thread, ws_pc, inbox,
                   outbox, delivered, closer, late>>
    /\ UNCHANGED callvars

\* _ping_thread_func: the truth test of ping_sent_time
PingPongCheck ==
    /\ ping_pc = "pong_check"
    /\ ping_pc' = IF ping_sent_time # None THEN "timeout_check" ELSE "sleep"
    /\ UNCHANGED <<conn, last_activity_time, ping_sent_time, ping_thread, ws_pc, inbox,
                   outbox, delivered, closer, late>>
    /\ UNCHANGED callvars

\* _ping_thread_func: time.time() - self.ping_sent_time > 5, a second read of the
\* field, which raises when _on_message has cleared it in between
PingTimeoutCheck ==
    /\ ping_pc = "timeout_check"
    /\ ping_pc' = IF ping_sent_time = None THEN "crashed"
                  ELSE IF ValueOf(ping_sent_time) > PongTimeoutSeconds THEN "close"
                  ELSE "sleep"
    /\ UNCHANGED <<conn, last_activity_time, ping_sent_time, ping_thread, ws_pc, inbox,
                   outbox, delivered, closer, late>>
    /\ UNCHANGED callvars

\* send_ping, first line: self.send('ping'); ws.send raises on a connection that
\* is no longer open
PingSend ==
    /\ ping_pc = "send_ping"
    /\ IF conn = "open"
       THEN /\ Len(outbox) < MaxInFlight
            /\ outbox' = Append(outbox, "ping")
            /\ last_activity_time' = Some(0)
            /\ ping_pc' = "mark"
       ELSE /\ ping_pc' = "crashed"
            /\ UNCHANGED <<outbox, last_activity_time>>
    /\ UNCHANGED <<conn, ping_sent_time, ping_thread, ws_pc, inbox, delivered, closer, late>>
    /\ UNCHANGED callvars

\* send_ping, second line: self.ping_sent_time = time.time()
PingMark ==
    /\ ping_pc = "mark"
    /\ ping_sent_time' = Some(0)
    /\ ping_pc' = "touch"
    /\ UNCHANGED <<conn, last_activity_time, ping_thread, ws_pc, inbox, outbox, delivered,
                   closer, late>>
    /\ UNCHANGED callvars

\* _ping_thread_func after send_ping: self.last_activity_time = time.time()
PingTouch ==
    /\ ping_pc = "touch"
    /\ last_activity_time' = Some(0)
    /\ ping_pc' = "sleep"
    /\ UNCHANGED <<conn, ping_sent_time, ping_thread, ws_pc, inbox, outbox, delivered,
                   closer, late>>
    /\ UNCHANGED callvars

\* _ping_thread_func, missing pong: self.close() and break
PingClose ==
    /\ ping_pc = "close"
    /\ ping_pc' = "done"
    /\ IF conn = "open"
       THEN /\ conn' = "closing"
            /\ closer' = "keepalive"
       ELSE UNCHANGED <<conn, closer>>
    /\ UNCHANGED <<last_activity_time, ping_sent_time, ping_thread, ws_pc, inbox, outbox,
                   delivered, late>>
    /\ UNCHANGED callvars

\* a ping of the client is on its way, or the pong for one has not been taken up
PingInFlight ==
    \/ \E i \in 1 .. Len(outbox) : outbox[i] = "ping"
    \/ \E i \in 1 .. Len(inbox) : inbox[i] = "pong"

\* one second passes while no code is running: time.sleep(1) returns, the stamps
\* are one second older, and a ping still in flight has gone a second unanswered
Tick ==
    /\ ws_pc = "idle"
    /\ ping_pc \in {"none", "sleep", "done", "crashed"}
    /\ ping_pc' = IF ping_pc = "sleep" THEN "loop" ELSE ping_pc
    /\ last_activity_time' = Elapsed(last_activity_time, InactivitySeconds + 1)
    /\ ping_sent_time' = Elapsed(ping_sent_time, PongTimeoutSeconds + 1)
    /\ late' = (late \/ PingInFlight)
    /\ UNCHANGED <<conn, ping_thread, ws_pc, inbox, outbox, delivered, closer>>
    /\ UNCHANGED callvars

\* the steps of the keep-alive thread
PingThread ==
    \/ PingLoop
    \/ PingActivityCheck
    \/ PingPongCheck
    \/ PingTimeoutCheck
    \/ PingSend
    \/ PingMark
    \/ PingTouch
    \/ PingClose

\* the callbacks run_forever makes on the websocket's thread
Callbacks ==
    \/ OnMessage
    \/ OnMessageClear
    \/ OnMessageTouch
    \/ OnClose

\* a client just constructed, no call of the other modules in progress
SocketInit ==
    /\ pc = "socket"
    /\ op = "SocketClient"
    /\ input = NoValue
    /\ output = Returned(NoValue)
    /\ sent = <<>>
    /\ queries = 0
    /\ SocketNew

SocketNext ==
    \/ Connect
    \/ UserSend
    \/ UserSendPingIfInactiveFor
    \/ UserClose
    \/ ServerClose
    \/ ServerSend
    \/ ServerReceive
    \/ OnMessage
    \/ OnMessageClear
    \/ OnMessageTouch
    \/ OnClose
    \/ PingLoop
    \/ PingActivityCheck
    \/ PingPongCheck
    \/ PingTimeoutCheck
    \/ PingSend
    \/ PingMark
    \/ PingTouch
    \/ PingClose
    \/ Tick

\* both threads keep running and time keeps passing; the user and the server
\* are under no obligation
SocketSpec == SocketInit /\ [][SocketNext]_vars /\ WF_vars(PingThread) /\ WF_vars(Callbacks) /\ WF_vars(Tick)

(***************************************************************************)
(* Properties.                                                             *)
(***************************************************************************)
Done(o) == pc = "done" /\ op = o

MarketClass == {"MARKET", "STOP_MARKET", "TAKE_PROFIT_MARKET"}

LimitClass == {"LIMIT", "STOP_LIMIT", "TAKE_PROFIT_LIMIT"}

ConditionalTypes == {"STOP_MARKET", "TAKE_PROFIT_MARKET", "STOP_LIMIT", "TAKE_PROFIT_LIMIT"}

StatefulFlags == {ORDER_FLAGS_LONG_TERM, ORDER_FLAGS_CONDITIONAL}

ExactlyOneNonzero(pair) ==
    \/ pair[1] # 0 /\ pair[2] = 0
    \/ pair[1] = 0 /\ pair[2] # 0

\* the expiry instant of a stateful order, in clock ticks since the epoch
ExpiryTicks == input.now + input.good_til_seconds * TicksPerSecond

\* C1 as stated: whenever generate_good_til_fields returns a pair, exactly one
\* of goodTilBlock and goodTilBlockTime is nonzero, for every flag, height,
\* goodTilBlocks and goodTilSeconds.
C1_AsStated ==
    (Done("generate_good_til_fields") /\ output.err = NoError)
        => ExactlyOneNonzero(output.ret)

\* C1 amended: whenever generate_good_til_fields returns a pair, exactly one of
\* the two values is nonzero, provided the expiry instant now + goodTilSeconds
\* of a stateful order is at least one second away from the epoch (it is for
\* every goodTilSeconds >= 0).
C1_MutualExclusion ==
    (/\ Done("generate_good_til_fields")
     /\ output.err = NoError
     /\ input.order_flags \in StatefulFlags
            => (ExpiryTicks >= TicksPerSecond \/ ExpiryTicks <= -TicksPerSecond))
        => ExactlyOneNonzero(output.ret)

C1_Witness ==
    /\ Done("generate_good_til_fields")
    /\ output.err = NoError
    /\ input.order_flags = ORDER_FLAGS_LONG_TERM
    /\ input.good_til_seconds = -MaxSeconds
    /\ output.ret[1] = 0
    /\ output.ret[2] # 0

\* the good-til fields the validator accepts for an order flag
GoodTilFieldsPass(order_flags, good_til_block, good_til_block_time) ==
    \/ order_flags \in StatefulFlags /\ good_til_block_time # 0 /\ good_til_block = 0
    \/ order_flags = ORDER_FLAGS_SHORT_TERM /\ good_til_block # 0 /\ good_til_block_time = 0

\* C2: a message returned by compose_msg_place_order or compose_msg_cancel_order
\* has good-til fields that pass the validator for its order flags, and when
\* the validator fails on the arguments an error is raised and no message is
\* returned.
C2_ComposerValidates ==
    (Done("compose_msg_place_order") \/ Done("compose_msg_cancel_order"))
        => /\ output.err = NoError
                => /\ output.ret.type \in {"MsgPlaceOrder", "MsgCancelOrder"}
                   /\ GoodTilFieldsPass(output.ret.order_id.order_flags,
                                        output.ret.good_til_block,
                                        output.ret.good_til_block_time)
           /\ ~GoodTilFieldsPass(input.order_flags, input.good_til_block,
                                 input.good_til_block_time)
                => output.err # NoError /\ output.ret = NoValue

C2_Witness ==
    /\ Done("compose_msg_place_order")
    /\ output.err = NoError
    /\ output.ret.type = "MsgPlaceOrder"
    /\ output.ret.order_id.order_flags = ORDER_FLAGS_SHORT_TERM
    /\ output.ret.good_til_block # 0

\* C3: validate_good_til_fields raises exactly when the order is stateful and
\* goodTilBlockTime = 0, stateful and goodTilBlock # 0, short-term and
\* goodTilBlock = 0, or short-term and goodTilBlockTime # 0.
C3_ValidatorCases ==
    Done("validate_good_til_fields")
        => (output.err # NoError
              <=> \/ input.is_stateful_order /\ input.good_til_block_time = 0
                  \/ input.is_stateful_order /\ input.good_til_block # 0
                  \/ ~input.is_stateful_order /\ input.good_til_block = 0
                  \/ ~input.is_stateful_order /\ input.good_til_block_time # 0)

C3_Witness ==
    /\ Done("validate_good_til_fields")
    /\ input.is_stateful_order
    /\ input.good_til_block_time # 0
    /\ input.good_til_block # 0
    /\ output.err = ErrStatefulNonzeroGTB

\* the current height of a call: the caller's, else the chain's
HeightKnown == input.latest_height # None \/ input.chain.ok

CurrentHeight ==
    IF input.latest_height # None THEN ValueOf(input.latest_height) ELSE input.chain.height

\* C4: for a short-term order with current height h, generate_good_til_fields
\* returns (h + goodTilBlocks, 0) if and only if
\* h + 1 <= h + goodTilBlocks <= h + 1 + 20, and fails with the
\* out-of-window error for every other goodTilBlocks.
C4_ShortTermWindow ==
    (/\ Done("generate_good_til_fields")
     /\ input.order_flags = ORDER_FLAGS_SHORT_TERM
     /\ HeightKnown)
        => LET h == CurrentHeight
               g == input.good_til_blocks
           IN  IF h + 1 <= h + g /\ h + g <= h + 1 + 20
               THEN output.err = NoError /\ output.ret = <<h + g, 0>>
               ELSE output.err = ErrGoodTilBlockOutOfWindow /\ output.ret = NoValue

C4_Witness ==
    /\ Done("generate_good_til_fields")
    /\ input.order_flags = ORDER_FLAGS_SHORT_TERM
    /\ HeightKnown
    /\ input.good_til_blocks = 22
    /\ output.err = ErrGoodTilBlockOutOfWindow

\* C5: place_order for an order whose flags resolve to short-term, with
\* currentHeight + goodTilBlocks outside the block window, fails with the
\* out-of-window error and hands no message to the broadcast collaborator.
C5_PlaceOrderOutOfWindow ==
    (/\ Done("place_order")
     /\ input.type \in OrderType
     /\ calculate_order_flags(input.type, input.time_in_force) = ORDER_FLAGS_SHORT_TERM
     /\ HeightKnown
     /\ (input.good_til_blocks < 1 \/ input.good_til_blocks > 1 + 20))
        => output.err = ErrGoodTilBlockOutOfWindow /\ sent = <<>>

\* C6 as stated: for MARKET and LIMIT the order flags are SHORT_TERM when the
\* time in force is IOC or FOK and LONG_TERM for every other time in force.
C6_AsStated ==
    (Done("calculate_order_flags") /\ input.order_type \in {"MARKET", "LIMIT"})
        => output.ret = IF input.time_in_force \in {"IOC", "FOK"}
                        THEN ORDER_FLAGS_SHORT_TERM
                        ELSE ORDER_FLAGS_LONG_TERM

\* C6 amended: for MARKET the order flags are SHORT_TERM for every time in
\* force; for LIMIT they are LONG_TERM when the time in force is GTT and
\* SHORT_TERM for every other time in force.
C6_NonConditionalFlags ==
    Done("calculate_order_flags")
        => /\ input.order_type = "MARKET" => output.ret = ORDER_FLAGS_SHORT_TERM
           /\ input.order_type = "LIMIT"
                => output.ret = IF input.time_in_force = "GTT"
                                THEN ORDER_FLAGS_LONG_TERM
                                ELSE ORDER_FLAGS_SHORT_TERM

C6_Witness ==
    /\ Done("calculate_order_flags")
    /\ input.order_type = "MARKET"
    /\ input.time_in_force = "GTT"
    /\ output.ret = ORDER_FLAGS_SHORT_TERM

\* C7: for each of the four conditional order types and every time in force
\* the order flags are CONDITIONAL (32).
C7_ConditionalFlags ==
    (Done("calculate_order_flags") /\ input.order_type \in ConditionalTypes)
        => output.err = NoError /\ output.ret = 32

C7_Witness ==
    /\ Done("calculate_order_flags")
    /\ input.order_type = "STOP_LIMIT"
    /\ input.time_in_force = "IOC"
    /\ output.ret = 32

\* C8: for a market-class order type the time in force is IOC for IOC and
\* FILL_OR_KILL for FOK whatever post_only is, and every other time in force
\* (GTT included) fails with the invalid-time-in-force error.
C8_MarketClassTimeInForce ==
    (Done("calculate_time_in_force") /\ input.order_type \in MarketClass)
        => /\ input.time_in_force = "IOC"
                => output.err = NoError /\ output.ret = "TIME_IN_FORCE_IOC"
           /\ input.time_in_force = "FOK"
                => output.err = NoError /\ output.ret = "TIME_IN_FORCE_FILL_OR_KILL"
           /\ input.time_in_force \notin {"IOC", "FOK"}
                => output.err = ErrInvalidTimeInForce /\ output.ret = NoValue

C8_Witness ==
    /\ Done("calculate_time_in_force")
    /\ input.order_type = "STOP_MARKET"
    /\ input.time_in_force = "GTT"
    /\ input.post_only
    /\ output.err = ErrInvalidTimeInForce

\* C9: for a limit-class order type GTT gives UNSPECIFIED without post_only and
\* POST_ONLY with it, IOC gives IOC and FOK gives FILL_OR_KILL whatever
\* post_only is, and every other time in force fails.
C9_LimitClassTimeInForce ==
    (Done("calculate_time_in_force") /\ input.order_type \in LimitClass)
        => /\ input.time_in_force = "GTT"
                => /\ output.err = NoError
                   /\ output.ret = IF input.post_only THEN "TIME_IN_FORCE_POST_ONLY"
                                   ELSE "TIME_IN_FORCE_UNSPECIFIED"
           /\ input.time_in_force = "IOC"
                => output.err = NoError /\ output.ret = "TIME_IN_FORCE_IOC"
           /\ input.time_in_force = "FOK"
                => output.err = NoError /\ output.ret = "TIME_IN_FORCE_FILL_OR_KILL"
           /\ input.time_in_force \notin {"GTT", "IOC", "FOK"}
                => output.err # NoError /\ output.ret = NoValue

C9_Witness ==
    /\ Done("calculate_time_in_force")
    /\ input.order_type = "TAKE_PROFIT_LIMIT"
    /\ input.time_in_force = "GTT"
    /\ input.post_only
    /\ output.ret = "TIME_IN_FORCE_POST_ONLY"

\* C10 as stated: for a limit-class order type GTX is accepted and gives
\* POST_ONLY, the result of GTT with post_only; for a market-class order type
\* GTX is rejected.
C10_AsStated ==
    (Done("calculate_time_in_force") /\ input.time_in_force = TIME_IN_FORCE_GTX)
        => /\ input.order_type \in LimitClass
                => output.err = NoError /\ output.ret = "TIME_IN_FORCE_POST_ONLY"
           /\ input.order_type \in MarketClass => output.err # NoError

\* C10 amended: GTX is no member of OrderTimeInForce and is rejected with the
\* invalid-time-in-force error for limit-class and market-class order types
\* alike; POST_ONLY is returned only for a limit-class order type with GTT
\* and post_only set.
C10_GtxRejected ==
    Done("calculate_time_in_force")
        => /\ (input.time_in_force = TIME_IN_FORCE_GTX /\ input.order_type \in OrderType)
                => output.err = ErrInvalidTimeInForce /\ output.ret = NoValue
           /\ (output.err = NoError /\ output.ret = "TIME_IN_FORCE_POST_ONLY")
                => /\ input.order_type \in LimitClass
                   /\ input.time_in_force = "GTT"
                   /\ input.post_only

C10_Witness ==
    /\ Done("calculate_time_in_force")
    /\ input.order_type = "LIMIT"
    /\ input.time_in_force = TIME_IN_FORCE_GTX
    /\ input.post_only
    /\ output.err = ErrInvalidTimeInForce

\* d * 10^exp10 truncated to a multiple of base, in exact arithmetic
ExactRound(d, exp10, base) ==
    LET k == d.e + exp10
    IN  TruncDiv(d.m * Pow10(k), Pow10(-k) * base) * base

\* C11: for every size, atomicResolution and stepBaseQuantums >= 1 the result of
\* calculate_quantums is a multiple of stepBaseQuantums and at least
\* stepBaseQuantums.
C11_QuantumsOnGrid ==
    (Done("calculate_quantums") /\ input.step_base_quantums >= 1)
        => /\ output.ret % input.step_base_quantums = 0
           /\ output.ret >= input.step_base_quantums

C11_Witness ==
    /\ Done("calculate_quantums")
    /\ input.size = [m |-> 1, e |-> -2]
    /\ input.atomic_resolution = -1
    /\ input.step_base_quantums = 10
    /\ output.ret = 10

\* C12: for every price, atomicResolution, quantumConversionExponent and
\* subticksPerTick >= 1 the result of calculate_subticks is a multiple of
\* subticksPerTick and at least subticksPerTick.
C12_SubticksOnGrid ==
    (Done("calculate_subticks") /\ input.subticks_per_tick >= 1)
        => /\ output.ret % input.subticks_per_tick = 0
           /\ output.ret >= input.subticks_per_tick

C12_Witness ==
    /\ Done("calculate_subticks")
    /\ input.price = [m |-> 27, e |-> 0]
    /\ input.atomic_resolution = -2
    /\ input.quantum_conversion_exponent = 3
    /\ input.subticks_per_tick = 100
    /\ output.ret = 200

\* C13: calculate_quantums returns
\* max(trunc(rawQuantums / stepBaseQuantums) * stepBaseQuantums, stepBaseQuantums)
\* with rawQuantums = size * 10^(-atomicResolution): the raw amount rounded
\* toward zero to a multiple of stepBaseQuantums, and stepBaseQuantums when
\* that is smaller.
C13_QuantumsExact ==
    Done("calculate_quantums")
        => output.ret = Max(ExactRound(input.size, -input.atomic_resolution,
                                       input.step_base_quantums),
                            input.step_base_quantums)

\* C14: calculate_subticks returns
\* max(trunc(rawSubticks / subticksPerTick) * subticksPerTick, subticksPerTick)
\* with rawSubticks = price * 10^exponent and
\* exponent = atomicResolution - quantumConversionExponent + 6.
C14_SubticksExact ==
    Done("calculate_subticks")
        => output.ret = Max(ExactRound(input.price,
                                       input.atomic_resolution
                                           - input.quantum_conversion_exponent + 6,
                                       input.subticks_per_tick),
                            input.subticks_per_tick)

\* C15: calculate_conditional_order_trigger_subticks returns 0 for MARKET and
\* LIMIT whatever the trigger price is; for a conditional order type it returns
\* calculate_subticks of the trigger price when one is given and fails with the
\* missing-trigger-price error when it is absent.
C15_TriggerSubticks ==
    Done("calculate_conditional_order_trigger_subticks")
        => /\ input.order_type \in {"MARKET", "LIMIT"}
                => output.err = NoError /\ output.ret = 0
           /\ (input.order_type \in ConditionalTypes /\ input.trigger_price # None)
                => /\ output.err = NoError
                   /\ output.ret = calculate_subticks(float(ValueOf(input.trigger_price)),
                                                      input.atomic_resolution,
                                                      input.quantum_conversion_exponent,
                                                      input.subticks_per_tick)
           /\ (input.order_type \in ConditionalTypes /\ input.trigger_price = None)
                => output.err = ErrMissingTriggerPrice /\ output.ret = NoValue

C15_Witness ==
    /\ Done("calculate_conditional_order_trigger_subticks")
    /\ input.order_type = "TAKE_PROFIT_MARKET"
    /\ input.trigger_price = None
    /\ output.err = ErrMissingTriggerPrice

\* C16: place_order called for a conditional order type without the caller
\* supplying a trigger price fails with the missing-trigger-price error and
\* hands no message to the broadcast collaborator.
C16_MissingTriggerPrice ==
    (Done("place_order") /\ input.type \in ConditionalTypes /\ ~input.trigger_price_given)
        => output.err = ErrMissingTriggerPrice /\ sent = <<>>

\* C17 as stated: for a stateful order flag generate_good_til_fields returns
\* (0, wall clock + goodTilSeconds in unix seconds), whatever goodTilBlocks and
\* the height are and with no block-window check, and the pair passes
\* validate_good_til_fields for a stateful order.
C17_AsStated ==
    (Done("generate_good_til_fields") /\ input.order_flags \in StatefulFlags)
        => /\ output.err = NoError
           /\ output.ret = <<0, TruncDiv(ExpiryTicks, TicksPerSecond)>>
           /\ validate_good_til_fields(TRUE, output.ret[2], output.ret[1]) = NoError

\* C17 amended: for a stateful order flag generate_good_til_fields returns
\* (0, wall clock + goodTilSeconds in unix seconds), whatever goodTilBlocks and
\* the height are and with no block-window check and no chain query; the pair
\* passes validate_good_til_fields for a stateful order exactly when the expiry
\* instant is at least one second away from the epoch.
C17_StatefulFields ==
    (Done("generate_good_til_fields") /\ input.order_flags \in StatefulFlags)
        => /\ output.err = NoError
           /\ output.ret = <<0, TruncDiv(ExpiryTicks, TicksPerSecond)>>
           /\ validate_good_til_fields(TRUE, output.ret[2], output.ret[1]) = NoError
                <=> (ExpiryTicks >= TicksPerSecond \/ ExpiryTicks <= -TicksPerSecond)

C17_Witness ==
    /\ Done("generate_good_til_fields")
    /\ input.order_flags = ORDER_FLAGS_CONDITIONAL
    /\ input.good_til_blocks = MaxGoodTilBlocks
    /\ input.latest_height = None
    /\ input.chain = ChainDown
    /\ input.good_til_seconds = MaxSeconds
    /\ output.err = NoError
    /\ output.ret[1] = 0
    /\ output.ret[2] > MaxSeconds

\* C18: during one generate_good_til_fields call latest_block_height is called
\* exactly once when the order is short-term and the caller supplied no height,
\* and zero times when the caller supplied a height or the order is stateful;
\* when that single query fails the failure reaches the caller, the query is
\* not retried and no good-til pair is returned.
C18_SingleHeightQuery ==
    Done("generate_good_til_fields")
        => /\ (input.order_flags = ORDER_FLAGS_SHORT_TERM /\ input.latest_height = None)
                => queries = 1
           /\ (input.order_flags \in StatefulFlags \/ input.latest_height # None)
                => queries = 0
           /\ (/\ input.order_flags = ORDER_FLAGS_SHORT_TERM
               /\ input.latest_height = None
               /\ ~input.chain.ok)
                => /\ output.err = ErrChainQuery
                   /\ output.ret = NoValue
                   /\ queries = 1

C18_Witness ==
    /\ Done("generate_good_til_fields")
    /\ input.order_flags = ORDER_FLAGS_SHORT_TERM
    /\ input.latest_height = None
    /\ input.chain = ChainOk(MaxHeight)
    /\ output.err = NoError
    /\ output.ret[1] > MaxHeight
    /\ queries = 1

\* C19: a cancel message returned by compose_msg_cancel_order carries exactly
\* one of the two expiry fields: for a stateful order flag only
\* good_til_block_time is set, for a short-term order flag only good_til_block
\* is set, and the field that is set is nonzero.
C19_CancelOneExpiryField ==
    (Done("compose_msg_cancel_order") /\ output.err = NoError)
        => /\ output.ret.type = "MsgCancelOrder"
           /\ input.order_flags \in StatefulFlags
                => /\ output.ret.has = {"good_til_block_time"}
                   /\ output.ret.good_til_block_time # 0
           /\ input.order_flags = ORDER_FLAGS_SHORT_TERM
                => /\ output.ret.has = {"good_til_block"}
                   /\ output.ret.good_til_block # 0

C19_Witness ==
    /\ Done("compose_msg_cancel_order")
    /\ output.err = NoError
    /\ input.order_flags = ORDER_FLAGS_LONG_TERM
    /\ output.ret.has = {"good_til_block_time"}
    /\ output.ret.good_til_block_time = MaxGoodTil

\* C20: compose_msg_batch_cancel produces exactly one cancel-batch entry per key
\* of the input mapping, in the iteration order of the mapping's keys, each
\* entry carrying that key as clob_pair_id and the key's client-id sequence
\* unchanged; an empty mapping produces an empty batch list.
C20_BatchCancelEntries ==
    Done("compose_msg_batch_cancel")
        => /\ output.err = NoError
           /\ Len(output.ret.short_term_cancels) = Len(input.cancel_orders)
           /\ \A i \in 1 .. Len(input.cancel_orders) :
                /\ output.ret.short_term_cancels[i].clob_pair_id = input.cancel_orders[i][1]
                /\ output.ret.short_term_cancels[i].client_ids = input.cancel_orders[i][2]
           /\ input.cancel_orders = <<>> => output.ret.short_term_cancels = <<>>

C20_Witness ==
    /\ Done("compose_msg_batch_cancel")
    /\ input.cancel_orders = << <<MaxClobPairId, <<2, 1>> >>, <<0, <<>> >> >>
    /\ output.ret.short_term_cancels =
           <<OrderBatch(MaxClobPairId, <<2, 1>>), OrderBatch(0, <<>>)>>

\* C21: is_order_flag_stateful_order returns false for SHORT_TERM and true for
\* LONG_TERM and CONDITIONAL, that is flags # SHORT_TERM on the three valid
\* flags; for every other integer it fails with the invalid-order-flag error,
\* and compose_msg_place_order and compose_msg_cancel_order return no message
\* for an unrecognized flag.
C21_StatefulFlagResolver ==
    /\ Done("is_order_flag_stateful_order")
        => /\ input.order_flag \in OrderFlags
                => /\ output.err = NoError
                   /\ output.ret = (input.order_flag # ORDER_FLAGS_SHORT_TERM)
           /\ input.order_flag \notin OrderFlags
                => output.err = ErrInvalidOrderFlag /\ output.ret = NoValue
    /\ ((Done("compose_msg_place_order") \/ Done("compose_msg_cancel_order"))
            /\ input.order_flags \notin OrderFlags)
        => output.err = ErrInvalidOrderFlag /\ output.ret = NoValue

C21_Witness ==
    /\ Done("is_order_flag_stateful_order")
    /\ input.order_flag = ORDER_FLAGS_LONG_TERM + 1
    /\ output.err = ErrInvalidOrderFlag

\* C22: calculate_client_metadata returns 1 exactly for the market-class order
\* types MARKET, STOP_MARKET and TAKE_PROFIT_MARKET and 0 for LIMIT, STOP_LIMIT
\* and TAKE_PROFIT_LIMIT.
C22_ClientMetadata ==
    (Done("calculate_client_metadata") /\ input.order_type \in OrderType)
        => /\ output.err = NoError
           /\ output.ret = 1 <=> input.order_type \in MarketClass
           /\ output.ret = 0 <=> input.order_type \in LimitClass

C22_Witness ==
    /\ Done("calculate_client_metadata")
    /\ input.order_type = "TAKE_PROFIT_MARKET"
    /\ output.ret = 1

\* C23: calculate_condition_type returns STOP_LOSS for STOP_MARKET and
\* STOP_LIMIT, TAKE_PROFIT for TAKE_PROFIT_MARKET and TAKE_PROFIT_LIMIT, and
\* UNSPECIFIED for MARKET and LIMIT.
C23_ConditionType ==
    (Done("calculate_condition_type") /\ input.order_type \in OrderType)
        => /\ output.err = NoError
           /\ input.order_type \in {"STOP_MARKET", "STOP_LIMIT"}
                => output.ret = "CONDITION_TYPE_STOP_LOSS"
           /\ input.order_type \in {"TAKE_PROFIT_MARKET", "TAKE_PROFIT_LIMIT"}
                => output.ret = "CONDITION_TYPE_TAKE_PROFIT"
           /\ input.order_type \in {"MARKET", "LIMIT"}
                => output.ret = "CONDITION_TYPE_UNSPECIFIED"

C23_Witness ==
    /\ Done("calculate_condition_type")
    /\ input.order_type = "STOP_LIMIT"
    /\ output.ret = "CONDITION_TYPE_STOP_LOSS"

\* C24: for every order type and time-in-force, with a trigger price supplied
\* and subticksPerTick >= 1, the three resolvers agree on conditionality:
\* calculate_order_flags returns CONDITIONAL iff calculate_condition_type
\* returns a value other than UNSPECIFIED iff
\* calculate_conditional_order_trigger_subticks returns a nonzero value.
C24_ConditionalityAgrees ==
    (Done("resolve_conditionality") /\ input.subticks_per_tick >= 1)
        => /\ output.ret.condition_type.err = NoError
           /\ output.ret.conditional_order_trigger_subticks.err = NoError
           /\ (output.ret.order_flags = ORDER_FLAGS_CONDITIONAL)
                <=> (output.ret.condition_type.ret # "CONDITION_TYPE_UNSPECIFIED")
           /\ (output.ret.order_flags = ORDER_FLAGS_CONDITIONAL)
                <=> (output.ret.conditional_order_trigger_subticks.ret # 0)

C24_Witness ==
    /\ Done("resolve_conditionality")
    /\ input.order_type = "STOP_MARKET"
    /\ input.trigger_price = Some([m |-> 0, e |-> 0])
    /\ output.ret.order_flags = ORDER_FLAGS_CONDITIONAL
    /\ output.ret.condition_type.ret = "CONDITION_TYPE_STOP_LOSS"
    /\ output.ret.conditional_order_trigger_subticks.ret = input.subticks_per_tick

\* C25: when send_message is given no explicit broadcast mode, a place-order
\* message with SHORT_TERM flags is broadcast with BroadcastTxSync, one with
\* LONG_TERM or CONDITIONAL flags with BroadcastTxCommit, and every other
\* message with BroadcastTxSync; an explicit broadcast mode is used unchanged
\* for every message type.
C25_BroadcastMode ==
    Done("send_message")
        => /\ Len(sent) = 1
           /\ sent[1].msg = input.msg
           /\ input.broadcast_mode # None
                => sent[1].broadcast_mode = ValueOf(input.broadcast_mode)
           /\ input.broadcast_mode = None
                => sent[1].broadcast_mode =
                       IF input.msg.type # "MsgPlaceOrder" THEN "BroadcastTxSync"
                       ELSE IF input.msg.order_id.order_flags = ORDER_FLAGS_SHORT_TERM
                       THEN "BroadcastTxSync"
                       ELSE "BroadcastTxCommit"

C25_Witness ==
    /\ Done("send_message")
    /\ input.broadcast_mode = None
    /\ input.msg.type = "MsgPlaceOrder"
    /\ input.msg.order_id.order_flags = ORDER_FLAGS_CONDITIONAL
    /\ Len(sent) = 1
    /\ sent[1].broadcast_mode = "BroadcastTxCommit"

\* the arguments place_order would get from the dict's fields
PlaceOrderObjectFields ==
    [address |-> Subaccount.address, subaccount_number |-> Subaccount.subaccount_number,
     client_id |-> input.place_order.clientId, clob_pair_id |-> input.place_order.clobPairId,
     side |-> input.place_order.side, quantums |-> input.place_order.quantums,
     subticks |-> input.place_order.subticks, time_in_force |-> input.place_order.timeInForce,
     order_flags |-> input.place_order.orderFlags,
     reduce_only |-> input.place_order.reduceOnly,
     good_til_block |-> Get(input.place_order.goodTilBlock, 0),
     good_til_block_time |-> Get(input.place_order.goodTilBlockTime, 0),
     client_metadata |-> Get(input.place_order.clientMetadata, 0),
     condition_type |-> "CONDITION_TYPE_UNSPECIFIED",
     conditional_order_trigger_subticks |-> 0]

\* C26: place_order_object(subaccount, place_order, broadcast_mode) is
\* equivalent to Post.place_order called with the dict's fields and
\* broadcast_mode = broadcast_mode: the message is broadcast with the mode the
\* caller passed, and the composed order has condition type UNSPECIFIED and
\* conditional trigger subticks 0.
C26_PlaceOrderObjectForwards ==
    Done("place_order_object")
        => LET r == Post_place_order(PlaceOrderObjectFields, input.broadcast_mode)
           IN  /\ output = [err |-> r.err, ret |-> r.ret]
               /\ sent = r.sent

\* C27: every order that place_short_term_order hands to the broadcast
\* collaborator has order flags SHORT_TERM, good_til_block_time 0,
\* good_til_block = height + good_til_blocks inside the window
\* [height + 1, height + 21], condition type UNSPECIFIED and conditional
\* trigger subticks 0, whatever order type the caller passed; the order type
\* only decides client_metadata.
C27_ShortTermOrderShape ==
    Done("place_short_term_order")
        => \A i \in 1 .. Len(sent) :
             LET order == sent[i].msg
             IN  /\ order.type = "MsgPlaceOrder"
                 /\ order.order_id.order_flags = ORDER_FLAGS_SHORT_TERM
                 /\ order.good_til_block_time = 0
                 /\ HeightKnown
                 /\ order.good_til_block = CurrentHeight + input.good_til_blocks
                 /\ order.good_til_block >= CurrentHeight + 1
                 /\ order.good_til_block <= CurrentHeight + 21
                 /\ order.condition_type = "CONDITION_TYPE_UNSPECIFIED"
                 /\ order.conditional_order_trigger_subticks = 0
                 /\ order.client_metadata = calculate_client_metadata(input.type)

C27_Witness ==
    /\ Done("place_short_term_order")
    /\ input.type = "STOP_LIMIT"
    /\ input.good_til_blocks = 21
    /\ input.latest_height = None
    /\ Len(sent) = 1
    /\ sent[1].msg.order_id.order_flags = ORDER_FLAGS_SHORT_TERM
    /\ sent[1].msg.good_til_block = input.chain.height + 21

\* C28: under every interleaving of the keep-alive thread and the receive
\* callback, when the server answers every ping of the client promptly (here:
\* no ping is still waiting for its pong when a second passes, well inside the
\* 5 seconds), the keep-alive thread never closes the socket for a missing
\* pong.
C28_PromptPongKeepsSocketOpen == closer = "keepalive" => late

\* C29: keep-alive frames never reach the user: no 'ping' and no 'pong' that
\* the client receives is handed to the user's on_message callback.
C29_KeepAliveFramesConsumed == delivered \cap {"ping", "pong"} = {}

\* C30: once the connection has closed (_on_close has run), the keep-alive
\* thread started by _on_open eventually leaves its loop and terminates.
C30_PingThreadTerminates == (conn = "closed") ~> (ping_pc \in {"done", "crashed"})

====
